---- MODULE Spec2Model ----
(***************************************************************************)
(* A model of the core of the vectorized PromQL engine: the step-invariant *)
(* operator, the vector-scalar operator, the hash aggregate with its       *)
(* vectorised table, and the engine facade's Exec loop that drives a root  *)
(* operator.  Operators are pull based: Next returns a batch of step       *)
(* vectors, nil being the terminal marker.                                 *)
(***************************************************************************)
EXTENDS Integers, Sequences, FiniteSets, TLC

VARIABLES
    env,        \* what the query was built with: root operator kind, child script, operation
    ctxDone,    \* the context handed to the operators has been cancelled
    u,          \* stepInvariantOperator fields
    o,          \* scalarOperator fields
    a,          \* aggregate fields
    next,       \* the child operator below the root (u.next / o.next / a.next)
    pools,      \* buffers on loan from the root's and the child's VectorPool
    last,       \* the consumer's record of the most recent call on the root operator
    emittedT,   \* timestamps of all step vectors the root returned so far, in order
    sawEmpty,   \* some earlier Next returned a zero-length batch without error
    firstSeries,\* what the first Series call on the root returned
    q,          \* compatibilityQuery.Exec: program counter, result, bookkeeping
    eng,        \* compatibilityEngine: options, counters, the last construction call
    wg,         \* one aggregate.Next call step by step: the caller and the worker tasks
    sel,        \* a seriesSelector, its storage and the threads calling GetSeries
    sp,         \* a SelectorPool: its map of selectors and the calls made on it
    fn          \* one application of a function of the engine: arguments and result

vars == <<env, ctxDone, u, o, a, next, pools, last, emittedT, sawEmpty, firstSeries, q, eng, wg,
          sel, sp, fn>>

\* The parts of the state that the operators, their consumer and Exec never touch.
Others == <<eng, wg, sel, sp, fn>>

(***************************************************************************)
(* Bounds of the model.                                                    *)
(***************************************************************************)
StepsBatch == 2      \* steps per batch (the engine-wide batching parameter)
MaxT == 2            \* largest query end timestamp
MaxStep == 2         \* largest query step

MaxChildSteps == StepsBatch + 1   \* longest child stream, in step vectors

(***************************************************************************)
(* Values.                                                                 *)
(***************************************************************************)
NoErr == "nil"
Canceled == "context canceled"
StorageErr == "storage error"
UnexpectedSamples == "unexpected number of samples"
UnexpectedErr == "unexpected error"
NotSupportedExpr == "unsupported expression"

\* A batch is nil (the terminal marker) or a possibly zero-length list of step vectors.
NilBatch == [isNil |-> TRUE, v |-> <<>>]
Batch(vs) == [isNil |-> FALSE, v |-> vs]
StepVector(t, ids, samples) == [T |-> t, SampleIDs |-> ids, Samples |-> samples]

Min(x, y) == IF x < y THEN x ELSE y

\* The series the child publishes: two series of one metric.
ChildSeries ==
    << << <<"__name__", "m">>, <<"pod", "a">> >>,
       << <<"__name__", "m">>, <<"pod", "b">> >> >>

\* The sample sets a child step vector may carry (SampleIDs are ordinals into
\* ChildSeries, unique within a vector).
Shapes ==
    { [ids |-> <<>>,     vals |-> <<>>],
      [ids |-> <<0>>,    vals |-> <<1>>],
      [ids |-> <<1, 0>>, vals |-> <<5, 1>>] }

(***************************************************************************)
(* VectorPool: the model counts the buffers on loan.                       *)
(***************************************************************************)
NoLoans == [vectors |-> 0, batches |-> 0]

GetVectorBatch(pl, who) == [pl EXCEPT ![who].batches = @ + 1]
GetStepVector(pl, who) == [pl EXCEPT ![who].vectors = @ + 1]
PutVectors(pl, who) == [pl EXCEPT ![who].batches = @ - 1]
PutStepVector(pl, who) == [pl EXCEPT ![who].vectors = @ - 1]
GetStepVectors(pl, who, n) == [pl EXCEPT ![who].vectors = @ + n]
PutStepVectors(pl, who, n) == [pl EXCEPT ![who].vectors = @ - n]

\* The pools of the root and of the child as NewVectorPool makes them; stepSize
\* is the capacity hint of each.
NewVectorPools == [root |-> NoLoans, child |-> NoLoans, stepSize |-> [root |-> 0, child |-> 0]]
SetStepSize(pl, who, n) == [pl EXCEPT !.stepSize[who] = n]

(***************************************************************************)
(* The child operator: a leaf that streams env.n step vectors at           *)
(* T = mint, mint + step, ... in batches of StepsBatch, polls the context  *)
(* at entry, and may fail once with a storage error.                       *)
(***************************************************************************)
EffStep(step) == IF step = 0 THEN 1 ELSE step

childVector(e, k) ==
    StepVector(e.mint + (k - 1) * EffStep(e.step), e.shapes[k].ids, e.shapes[k].vals)

childFails(e, nx) ==
    /\ ~nx.failed
    /\ \/ e.nextErr = "first" /\ nx.pos = 0
       \/ e.nextErr = "second" /\ nx.pos > 0

\* st is the record of the operators' state: [u, o, a, next, pools].
\* Every Next returns [st, out, err, pulled]; pulled: the child's Next was called.
Ret(st, out, err, pulled) == [st |-> st, out |-> out, err |-> err, pulled |-> pulled]

childNext(e, st, done) ==
    IF done THEN Ret(st, NilBatch, Canceled, FALSE)
    ELSE IF childFails(e, st.next)
    THEN Ret([st EXCEPT !.next.failed = TRUE], NilBatch, StorageErr, FALSE)
    ELSE IF st.next.pos >= e.n THEN Ret(st, NilBatch, NoErr, FALSE)
    ELSE LET hi == Min(st.next.pos + StepsBatch, e.n)
             vs == [i \in 1..(hi - st.next.pos) |-> childVector(e, st.next.pos + i)]
             pl == GetStepVectors(GetVectorBatch(st.pools, "child"), "child", Len(vs))
         IN Ret([st EXCEPT !.next.pos = hi, !.pools = pl], Batch(vs), NoErr, FALSE)

\* Series of the child: the list, or the error the storage gave.
childSeries(e) ==
    IF e.seriesErr THEN [list |-> <<>>, err |-> StorageErr]
    ELSE [list |-> e.series, err |-> NoErr]

(***************************************************************************)
(* stepInvariantOperator                                                   *)
(***************************************************************************)
\* Mutant: the interval is not raised to 1 when the step is 0.
NewStepInvariantOperatorZeroStep(start, end, step, exprKind, stepsBatch) ==
    [ cacheResult     |-> exprKind \notin {"MatrixSelector", "SubqueryExpr"},
      seriesOnce      |-> FALSE,
      series          |-> <<>>,
      cacheVectorOnce |-> FALSE,
      cachedVector    |-> StepVector(0, <<>>, <<>>),
      mint            |-> start,
      maxt            |-> end,
      step            |-> step,
      currentStep     |-> start,
      stepsBatch      |-> stepsBatch ]

\* Mutant: caching stays on for range selectors and subqueries.
NewStepInvariantOperatorAlwaysCaches(start, end, step, exprKind, stepsBatch) ==
    [ cacheResult     |-> TRUE,
      seriesOnce      |-> FALSE,
      series          |-> <<>>,
      cacheVectorOnce |-> FALSE,
      cachedVector    |-> StepVector(0, <<>>, <<>>),
      mint            |-> start,
      maxt            |-> end,
      step            |-> IF step = 0 THEN 1 ELSE step,
      currentStep     |-> start,
      stepsBatch      |-> stepsBatch ]

NewStepInvariantOperator(start, end, step, exprKind, stepsBatch) ==
    LET interval == IF step = 0 THEN 1 ELSE step
    IN [ cacheResult     |-> exprKind \notin {"MatrixSelector", "SubqueryExpr"},
         seriesOnce      |-> FALSE,
         series          |-> <<>>,
         cacheVectorOnce |-> FALSE,
         cachedVector    |-> StepVector(0, <<>>, <<>>),
         mint            |-> start,
         maxt            |-> end,
         step            |-> interval,
         currentStep     |-> start,
         stepsBatch      |-> stepsBatch ]

\* Series returns [st, list, err]; a nil list is <<>>.
SeriesRet(st, list, err) == [st |-> st, list |-> list, err |-> err]

stepInvariantSeries(e, st) ==
    IF st.u.seriesOnce THEN SeriesRet(st, st.u.series, NoErr)
    ELSE LET r == childSeries(e)
             s1 == [st EXCEPT !.u.seriesOnce = TRUE, !.u.series = r.list]
         IN IF r.err # NoErr THEN SeriesRet(s1, <<>>, r.err)
            ELSE SeriesRet(s1, s1.u.series, NoErr)

\* Mutant: the child is read on every call, not under cacheVectorOnce.
cacheInputVectorEveryCall(e, st, done) ==
    LET r == childNext(e, st, done)
        s1 == [r.st EXCEPT !.u.cacheVectorOnce = TRUE]
        in == r.out.v
        s2 == IF r.out.isNil THEN s1
              ELSE [s1 EXCEPT !.pools = PutVectors(@, "child")]
    IN IF r.err # NoErr THEN [st |-> s1, err |-> r.err, pulled |-> TRUE]
       ELSE IF Len(in) = 0 \/ Len(in[1].Samples) = 0
       THEN [st |-> s2, err |-> NoErr, pulled |-> TRUE]
       ELSE IF Len(in) # 1
       THEN [st |-> s2, err |-> UnexpectedSamples, pulled |-> TRUE]
       ELSE LET cached == StepVector(0, <<>> \o in[1].SampleIDs, <<>> \o in[1].Samples)
                pl == PutStepVector(GetStepVector(s2.pools, "root"), "child")
            IN [st |-> [s2 EXCEPT !.u.cachedVector = cached, !.pools = pl],
                err |-> NoErr, pulled |-> TRUE]

\* The body of cacheVectorOnce.Do: one read of the child, kept as a private copy.
cacheInputVector(e, st, done) ==
    IF st.u.cacheVectorOnce THEN [st |-> st, err |-> NoErr, pulled |-> FALSE]
    ELSE
      LET r == childNext(e, st, done)
          s1 == [r.st EXCEPT !.u.cacheVectorOnce = TRUE]
          in == r.out.v
          \* defer u.next.GetPool().PutVectors(in)
          s2 == IF r.out.isNil THEN s1
                ELSE [s1 EXCEPT !.pools = PutVectors(@, "child")]
      IN IF r.err # NoErr THEN [st |-> s1, err |-> r.err, pulled |-> TRUE]
         ELSE IF Len(in) = 0 \/ Len(in[1].Samples) = 0
         THEN [st |-> s2, err |-> NoErr, pulled |-> TRUE]
         ELSE IF Len(in) # 1
         THEN [st |-> s2, err |-> UnexpectedSamples, pulled |-> TRUE]
         ELSE LET cached == StepVector(0, <<>> \o in[1].SampleIDs, <<>> \o in[1].Samples)
                  pl == PutStepVector(GetStepVector(s2.pools, "root"), "child")
              IN [st |-> [s2 EXCEPT !.u.cachedVector = cached, !.pools = pl],
                  err |-> NoErr, pulled |-> TRUE]

\* Mutant: the output vector is not reset between steps, so each step appends
\* the cached samples to those of the step before.
RECURSIVE stepInvariantLoopNoReset(_, _, _)
stepInvariantLoopNoReset(st, i, result) ==
    IF i < st.u.stepsBatch /\ st.u.currentStep <= st.u.maxt
    THEN LET prev == IF Len(result) = 0 THEN StepVector(0, <<>>, <<>>)
                     ELSE result[Len(result)]
             outVector == StepVector(st.u.currentStep,
                                     prev.SampleIDs \o st.u.cachedVector.SampleIDs,
                                     prev.Samples \o st.u.cachedVector.Samples)
             s1 == [st EXCEPT !.pools = GetStepVector(@, "root"),
                              !.u.currentStep = @ + st.u.step]
         IN stepInvariantLoopNoReset(s1, i + 1, Append(result, outVector))
    ELSE [st |-> st, result |-> result]

\* The replication loop of Next: up to stepsBatch copies of the cached vector.
RECURSIVE stepInvariantLoop(_, _, _)
stepInvariantLoop(st, i, result) ==
    IF i < st.u.stepsBatch /\ st.u.currentStep <= st.u.maxt
    THEN LET outVector == StepVector(st.u.currentStep,
                                     <<>> \o st.u.cachedVector.SampleIDs,
                                     <<>> \o st.u.cachedVector.Samples)
             s1 == [st EXCEPT !.pools = GetStepVector(@, "root"),
                              !.u.currentStep = @ + st.u.step]
         IN stepInvariantLoop(s1, i + 1, Append(result, outVector))
    ELSE [st |-> st, result |-> result]

\* Mutant: an empty cached vector gives a zero-length batch, not the terminal one.
stepInvariantNextEmptyBatch(e, st, done) ==
    IF st.u.currentStep > st.u.maxt THEN Ret(st, NilBatch, NoErr, FALSE)
    ELSE IF done THEN Ret(st, NilBatch, Canceled, FALSE)
    ELSE IF ~st.u.cacheResult
    THEN LET r == childNext(e, st, done) IN Ret(r.st, r.out, r.err, TRUE)
    ELSE LET c == cacheInputVector(e, st, done)
         IN IF c.err # NoErr THEN Ret(c.st, NilBatch, c.err, c.pulled)
            ELSE LET l == stepInvariantLoop(
                              [c.st EXCEPT !.pools = GetVectorBatch(@, "root")], 0, <<>>)
                 IN Ret(l.st, Batch(l.result), NoErr, c.pulled)

stepInvariantNext(e, st, done) ==
    IF st.u.currentStep > st.u.maxt THEN Ret(st, NilBatch, NoErr, FALSE)
    ELSE IF done THEN Ret(st, NilBatch, Canceled, FALSE)
    ELSE IF ~st.u.cacheResult
    THEN LET r == childNext(e, st, done) IN Ret(r.st, r.out, r.err, TRUE)
    ELSE LET c == cacheInputVector(e, st, done)
         IN IF c.err # NoErr THEN Ret(c.st, NilBatch, c.err, c.pulled)
            ELSE IF Len(c.st.u.cachedVector.Samples) = 0
            THEN Ret(c.st, NilBatch, NoErr, c.pulled)
            ELSE LET l == stepInvariantLoop(
                              [c.st EXCEPT !.pools = GetVectorBatch(@, "root")], 0, <<>>)
                 IN Ret(l.st, Batch(l.result), NoErr, c.pulled)

(***************************************************************************)
(* scalarOperator (vector-scalar binary operator)                          *)
(***************************************************************************)
\* Remove one label from a label set.
DelLabel(ls, name) == SelectSeq(ls, LAMBDA p : p[1] # name)

\* The operation table: [val, keep] of one sample against the scalar.
\* Comparisons without bool filter; with bool they give 0/1.
operation(op, operands, valIdx) ==
    CASE op = "+"     -> [val |-> operands[1] + operands[2], keep |-> TRUE]
      [] op = ">"     -> IF operands[1] > operands[2]
                         THEN [val |-> operands[valIdx + 1], keep |-> TRUE]
                         ELSE [val |-> 0, keep |-> FALSE]
      [] op = ">bool" -> [val |-> IF operands[1] > operands[2] THEN 1 ELSE 0, keep |-> TRUE]

getOperandsScalarLeft(v, i, scalar) == <<scalar, v.Samples[i]>>
getOperandsScalarRight(v, i, scalar) == <<v.Samples[i], scalar>>

NewScalar(op, scalarSide, scalar) ==
    [ seriesOnce    |-> FALSE,
      series        |-> <<>>,
      scalar        |-> scalar,
      op            |-> op,
      scalarLeft    |-> scalarSide = "Left",
      operandValIdx |-> IF scalarSide = "Left" THEN 1 ELSE 0 ]

\* Mutant: the series are published as the child has them.
loadSeriesKeepsName(e, st) ==
    LET r == childSeries(e)
    IN IF r.err # NoErr THEN [st |-> st, err |-> r.err]
       ELSE [st |-> [st EXCEPT !.o.series = r.list], err |-> NoErr]

\* loadSeries: the child's series without the metric name.
loadSeries(e, st) ==
    LET r == childSeries(e)
    IN IF r.err # NoErr THEN [st |-> st, err |-> r.err]
       ELSE [st |-> [st EXCEPT !.o.series =
                        [i \in 1..Len(r.list) |-> DelLabel(r.list[i], "__name__")]],
             err |-> NoErr]

scalarSeries(e, st) ==
    IF st.o.seriesOnce THEN SeriesRet(st, st.o.series, NoErr)
    ELSE LET r == loadSeries(e, [st EXCEPT !.o.seriesOnce = TRUE])
         IN IF r.err # NoErr THEN SeriesRet(r.st, <<>>, r.err)
            ELSE SeriesRet(r.st, r.st.o.series, NoErr)

\* One input vector: the kept samples, in input order.
RECURSIVE scalarStep(_, _, _, _)
scalarStep(ob, vector, i, step) ==
    IF i > Len(vector.Samples) THEN step
    ELSE LET operands == IF ob.scalarLeft
                         THEN getOperandsScalarLeft(vector, i, ob.scalar)
                         ELSE getOperandsScalarRight(vector, i, ob.scalar)
             r == operation(ob.op, operands, ob.operandValIdx)
         IN IF ~r.keep THEN scalarStep(ob, vector, i + 1, step)
            ELSE scalarStep(ob, vector, i + 1,
                            [step EXCEPT !.Samples = Append(@, r.val),
                                         !.SampleIDs = Append(@, vector.SampleIDs[i])])

\* The loop of Next over the input batch: a step that keeps no sample is
\* skipped, and with it the return of the input vector to the child's pool.
RECURSIVE scalarLoop(_, _, _, _)
scalarLoop(st, in, k, out) ==
    IF k > Len(in) THEN [st |-> st, out |-> out]
    ELSE LET s1 == [st EXCEPT !.pools = GetStepVector(@, "root")]
             step == scalarStep(st.o, in[k], 1, StepVector(in[k].T, <<>>, <<>>))
         IN IF Len(step.Samples) = 0 THEN scalarLoop(s1, in, k + 1, out)
            ELSE scalarLoop([s1 EXCEPT !.pools = PutStepVector(@, "child")],
                            in, k + 1, Append(out, step))

scalarNext(e, st, done) ==
    LET r == childNext(e, st, done)
    IN IF r.err # NoErr THEN Ret(r.st, NilBatch, r.err, TRUE)
       ELSE IF r.out.isNil THEN Ret(r.st, NilBatch, NoErr, TRUE)
       ELSE LET s == IF r.st.o.seriesOnce THEN [st |-> r.st, err |-> NoErr]
                     ELSE loadSeries(e, [r.st EXCEPT !.o.seriesOnce = TRUE])
            IN IF s.err # NoErr THEN Ret(s.st, NilBatch, s.err, TRUE)
               ELSE LET l == scalarLoop([s.st EXCEPT !.pools = GetVectorBatch(@, "root")],
                                        r.out.v, 1, <<>>)
                    IN Ret([l.st EXCEPT !.pools = PutVectors(@, "child")],
                           Batch(l.out), NoErr, TRUE)

(***************************************************************************)
(* aggregate (hash aggregate) and its tables                               *)
(***************************************************************************)
RECURSIVE SumSeq(_)
SumSeq(xs) == IF Len(xs) = 0 THEN 0 ELSE Head(xs) + SumSeq(Tail(xs))

MaxSeq(xs) == CHOOSE x \in {xs[i] : i \in 1..Len(xs)} : \A j \in 1..Len(xs) : xs[j] <= x
MinSeq(xs) == CHOOSE x \in {xs[i] : i \in 1..Len(xs)} : \A j \in 1..Len(xs) : xs[j] >= x

\* newVectorAccumulator: the kinds the switch returns an accumulator for. The
\* case "stddev" has an empty body and leaves the switch, so it ends in the error.
newVectorAccumulator(kind) ==
    IF kind \in {"sum", "max", "min", "count", "stdvar", "avg", "group"}
    THEN NoErr ELSE NotSupportedExpr

\* float64 values are modelled exactly: an integer, or a fraction in lowest
\* terms; NaN is the value of 0/0. The arithmetic works on fractions.
NaN == "NaN"
Abs(x) == IF x < 0 THEN -x ELSE x

RECURSIVE GCD(_, _)
GCD(x, y) == IF y = 0 THEN x ELSE GCD(y, x % y)

\* The fraction n/d, d > 0, in lowest terms.
Frac(n, d) == LET g == GCD(Abs(n), d) IN [num |-> n \div g, den |-> d \div g]

FAdd(x, y) == Frac(x.num * y.den + y.num * x.den, x.den * y.den)
FSub(x, y) == Frac(x.num * y.den - y.num * x.den, x.den * y.den)
FMul(x, y) == Frac(x.num * y.num, x.den * y.den)

\* The float64 a fraction stands for.
Float(x) == IF x.den = 1 THEN x.num ELSE x

\* x / float64(n)
FDiv(x, n) == IF n = 0 THEN NaN ELSE Float(Frac(x.num, x.den * n))

\* math.Sqrt(x / float64(n)): exact at 0, kept symbolic elsewhere.
SqrtDiv(x, n) ==
    IF n = 0 THEN NaN
    ELSE IF x.num = 0 THEN 0
    ELSE [sqrt |-> FDiv(x, n)]

\* The loop of the closure for stddev / stdvar: Welford's update per sample.
RECURSIVE welford(_, _, _, _, _)
welford(in, i, groupCount, mean, value) ==
    IF i > Len(in) THEN [groupCount |-> groupCount, mean |-> mean, value |-> value]
    ELSE LET v == Frac(in[i], 1)
             delta == FSub(v, mean)
             mean1 == FAdd(mean, Frac(delta.num, delta.den * (groupCount + 1)))
         IN welford(in, i + 1, groupCount + 1, mean1, FAdd(value, FMul(delta, FSub(v, mean1))))

\* The closure returned under case "stdvar", with t as captured.
stdAccumulator(t, in) ==
    LET w == welford(in, 1, 0, Frac(0, 1), Frac(0, 1))
    IN CASE t = "stdvar" -> FDiv(w.value, w.groupCount)
         [] t = "stddev" -> SqrtDiv(w.value, w.groupCount)
         [] OTHER        -> 0

\* The accumulator applied to the samples of one step.
vectorAccumulator(kind, in) ==
    CASE kind = "sum"    -> SumSeq(in)
      [] kind = "max"    -> MaxSeq(in)
      [] kind = "min"    -> MinSeq(in)
      [] kind = "count"  -> Len(in)
      [] kind = "stdvar" -> stdAccumulator(kind, in)
      [] kind = "avg"    -> FDiv(Frac(SumSeq(in), 1), Len(in))
      [] kind = "group"  -> 1

newVectorizedTable == [timestamp |-> 0, value |-> 0, hasValue |-> FALSE]

newVectorizedTables(stepsBatch, kind) ==
    IF newVectorAccumulator(kind) # NoErr
    THEN [tables |-> <<>>, err |-> newVectorAccumulator(kind)]
    ELSE [tables |-> [i \in 1..stepsBatch |-> newVectorizedTable], err |-> NoErr]

\* vectorTable.aggregate
vectorTableAggregate(t, kind, vector) ==
    IF Len(vector.SampleIDs) = 0 THEN [t EXCEPT !.hasValue = FALSE]
    ELSE [t EXCEPT !.hasValue = TRUE,
                   !.timestamp = vector.T,
                   !.value = vectorAccumulator(kind, vector.Samples)]

\* vectorTable.toVector
vectorTableToVector(t) ==
    IF ~t.hasValue THEN StepVector(t.timestamp, <<>>, <<>>)
    ELSE StepVector(t.timestamp, <<0>>, <<t.value>>)

\* hashMetric: the labels a series keeps under by (L) / without (L); two series
\* hash alike exactly when they keep the same labels.
hashMetric(metric, without, grouping) ==
    IF without
    THEN SelectSeq(metric, LAMBDA p : p[1] \notin (grouping \cup {"__name__"}))
    ELSE SelectSeq(metric, LAMBDA p : p[1] \in grouping)

\* Mutant: a new output group takes the ordinal of the input series that opens
\* it, not the number of groups so far.
RECURSIVE groupSeriesInputOrdinal(_, _, _, _, _)
groupSeriesInputOrdinal(ag, series, i, inputCache, outputCache) ==
    IF i > Len(series) THEN [inputCache |-> inputCache, outputCache |-> outputCache]
    ELSE LET lbls == hashMetric(series[i], ~ag.by, ag.labels)
             found == {k \in 1..Len(outputCache) : outputCache[k].Metric = lbls}
         IN IF found = {}
            THEN groupSeriesInputOrdinal(ag, series, i + 1,
                             Append(inputCache, i - 1),
                             Append(outputCache, [Metric |-> lbls, ID |-> i - 1]))
            ELSE groupSeriesInputOrdinal(ag, series, i + 1,
                             Append(inputCache, outputCache[CHOOSE k \in found : TRUE].ID),
                             outputCache)

\* The grouping loop of initializeScalarTables: input ordinal -> output ordinal.
RECURSIVE groupSeries(_, _, _, _, _)
groupSeries(ag, series, i, inputCache, outputCache) ==
    IF i > Len(series) THEN [inputCache |-> inputCache, outputCache |-> outputCache]
    ELSE LET lbls == hashMetric(series[i], ~ag.by, ag.labels)
             found == {k \in 1..Len(outputCache) : outputCache[k].Metric = lbls}
         IN IF found = {}
            THEN groupSeries(ag, series, i + 1,
                             Append(inputCache, Len(outputCache)),
                             Append(outputCache, [Metric |-> lbls, ID |-> Len(outputCache)]))
            ELSE groupSeries(ag, series, i + 1,
                             Append(inputCache, outputCache[CHOOSE k \in found : TRUE].ID),
                             outputCache)

\* A scalar table of one batch slot: per output group, the accumulator over the
\* group's members at that step; a group without members is left out.
newScalarTable(inputCache, outputCache) ==
    [timestamp |-> 0, value |-> 0, hasValue |-> FALSE,
     inputCache |-> inputCache, outputCache |-> outputCache, outputs |-> Len(outputCache)]

RECURSIVE scalarTableToVector(_, _, _, _, _)
scalarTableToVector(t, kind, vector, g, out) ==
    IF g >= t.outputs THEN out
    ELSE LET idx == SelectSeq([i \in 1..Len(vector.SampleIDs) |-> i],
                              LAMBDA i : t.inputCache[vector.SampleIDs[i] + 1] = g)
             members == [j \in 1..Len(idx) |-> vector.Samples[idx[j]]]
         IN IF Len(members) = 0 THEN scalarTableToVector(t, kind, vector, g + 1, out)
            ELSE scalarTableToVector(t, kind, vector, g + 1,
                     [out EXCEPT !.SampleIDs = Append(@, g),
                                 !.Samples = Append(@, vectorAccumulator(kind, members))])

\* stepSize is the argument of a.vectorPool.SetStepSize, where it is called.
initializeScalarTables(e, ag) ==
    LET r == childSeries(e)
    IN IF r.err # NoErr
       THEN [tables |-> <<>>, series |-> <<>>, kind |-> "none", stepSize |-> 0, err |-> r.err]
       ELSE LET g == groupSeries(ag, r.list, 1, <<>>, <<>>)
            IN [tables   |-> [i \in 1..ag.stepsBatch |->
                                 newScalarTable(g.inputCache, g.outputCache)],
                series   |-> [i \in 1..Len(g.outputCache) |-> g.outputCache[i].Metric],
                kind     |-> "scalar",
                stepSize |-> Len(g.outputCache),
                err      |-> NoErr]

\* Mutant: the vectorised tables publish no output series.
initializeVectorizedTablesNoSeries(e, ag) ==
    LET t == newVectorizedTables(ag.stepsBatch, ag.aggregation)
    IN IF t.err = NotSupportedExpr THEN initializeScalarTables(e, ag)
       ELSE [tables |-> t.tables, series |-> <<>>, kind |-> "vector", stepSize |-> 0,
             err |-> NoErr]

initializeVectorizedTables(e, ag) ==
    LET t == newVectorizedTables(ag.stepsBatch, ag.aggregation)
    IN IF t.err = NotSupportedExpr THEN initializeScalarTables(e, ag)
       ELSE [tables |-> t.tables, series |-> << <<>> >>, kind |-> "vector", stepSize |-> 0,
             err |-> NoErr]

\* The body of once.Do: on success the tables and series are set and the
\* workers started; on failure nothing is set.
initializeTables(e, st) ==
    LET r == IF st.a.by /\ st.a.labels = {}
             THEN initializeVectorizedTables(e, st.a)
             ELSE initializeScalarTables(e, st.a)
    IN IF r.err # NoErr THEN [st |-> st, err |-> r.err]
       ELSE [st |-> [st EXCEPT !.a.tables = r.tables, !.a.series = r.series,
                               !.a.tableKind = r.kind, !.a.started = TRUE,
                               !.pools = IF r.kind = "scalar"
                                         THEN SetStepSize(@, "root", r.stepSize) ELSE @],
             err |-> NoErr]

NewHashAggregate(aggregation, by, labels, stepsBatch) ==
    [ by          |-> by,
      labels      |-> labels,
      aggregation |-> aggregation,
      once        |-> FALSE,
      tables      |-> <<>>,
      tableKind   |-> "none",
      series      |-> <<>>,
      stepsBatch  |-> stepsBatch,
      started     |-> FALSE ]

aggregateSeries(e, st) ==
    IF st.a.once THEN SeriesRet(st, st.a.series, NoErr)
    ELSE LET r == initializeTables(e, [st EXCEPT !.a.once = TRUE])
         IN IF r.err # NoErr THEN SeriesRet(r.st, <<>>, r.err)
            ELSE SeriesRet(r.st, r.st.a.series, NoErr)

\* workerTask: table.aggregate(vector), then table.toVector(pool).
workerTask(ag, workerID, vector) ==
    IF ag.tableKind = "vector"
    THEN LET t == vectorTableAggregate(ag.tables[workerID], ag.aggregation, vector)
         IN [table |-> t, output |-> vectorTableToVector(t)]
    ELSE LET t == [ag.tables[workerID] EXCEPT !.timestamp = vector.T]
         IN [table |-> t,
             output |-> scalarTableToVector(t, ag.aggregation, vector, 0,
                                            StepVector(vector.T, <<>>, <<>>))]

\* The two loops of Next: vector i goes to worker i, outputs are collected in
\* input order and each input vector is returned to the child's pool.
RECURSIVE aggregateLoop(_, _, _, _)
aggregateLoop(st, in, i, result) ==
    IF i > Len(in) THEN [st |-> st, result |-> result]
    ELSE LET w == workerTask(st.a, i, in[i])
             s1 == [st EXCEPT !.a.tables[i] = w.table,
                              !.pools = PutStepVector(GetStepVector(@, "root"), "child")]
         IN aggregateLoop(s1, in, i + 1, Append(result, w.output))

Blocked == "blocked"

aggregateNext(e, st, done) ==
    IF done THEN Ret(st, NilBatch, Canceled, FALSE)
    ELSE LET r == childNext(e, st, done)
         IN IF r.err # NoErr THEN Ret(r.st, NilBatch, r.err, TRUE)
            ELSE IF r.out.isNil THEN Ret(r.st, NilBatch, NoErr, TRUE)
            ELSE LET s == IF r.st.a.once THEN [st |-> r.st, err |-> NoErr]
                          ELSE initializeTables(e, [r.st EXCEPT !.a.once = TRUE])
                     \* defer a.next.GetPool().PutVectors(in)
                     put == [s.st EXCEPT !.pools = PutVectors(@, "child")]
                 IN IF s.err # NoErr THEN Ret(put, NilBatch, s.err, TRUE)
                    \* workers that were never started give no output
                    ELSE IF ~put.a.started THEN Ret(put, NilBatch, Blocked, TRUE)
                    ELSE LET l == aggregateLoop(
                                      [put EXCEPT !.pools = GetVectorBatch(@, "root")],
                                      r.out.v, 1, <<>>)
                         IN Ret(l.st, Batch(l.result), NoErr, TRUE)

(***************************************************************************)
(* The query: a root operator over the child.                              *)
(***************************************************************************)
rootNext(e, st, done) ==
    CASE e.root = "stepInvariant" -> stepInvariantNext(e, st, done)
      [] e.root = "scalar"        -> scalarNext(e, st, done)
      [] e.root = "aggregate"     -> aggregateNext(e, st, done)

rootSeries(e, st) ==
    CASE e.root = "stepInvariant" -> stepInvariantSeries(e, st)
      [] e.root = "scalar"        -> scalarSeries(e, st)
      [] e.root = "aggregate"     -> aggregateSeries(e, st)

\* The consumer's duty after a batch: every step vector and the batch go back
\* to the producer's pool.
RECURSIVE putBack(_, _, _)
putBack(pl, r, i) ==
    IF i > Len(r) THEN PutVectors(pl, "root")
    ELSE putBack(PutStepVector(pl, "root"), r, i + 1)

State == [u |-> u, o |-> o, a |-> a, next |-> next, pools |-> pools]

SetState(st) ==
    /\ u' = st.u
    /\ o' = st.o
    /\ a' = st.a
    /\ next' = st.next
    /\ pools' = st.pools

(***************************************************************************)
(* Initial states.                                                         *)
(***************************************************************************)
\* The child's stream: n step vectors, each of one of the shapes.
Scripts(maxN) ==
    UNION { { [n |-> n, shapes |-> f] : f \in [1..n -> Shapes] } : n \in 0..maxN }

\* The child's faults: its Series fails, or one of its Next calls fails.
Faults ==
    { [seriesErr |-> FALSE, nextErr |-> "none"],
      [seriesErr |-> TRUE,  nextErr |-> "none"],
      [seriesErr |-> FALSE, nextErr |-> "first"],
      [seriesErr |-> FALSE, nextErr |-> "second"] }

Ranges ==
    { [mint |-> s, maxt |-> t, step |-> d] : s \in 0..1, t \in 0..MaxT, d \in 0..MaxStep }

EnvOf(root, rg, sc, f, exprKind, op, side, agg, labels) ==
    [ root |-> root, mint |-> rg.mint, maxt |-> rg.maxt, step |-> rg.step,
      n |-> sc.n, shapes |-> sc.shapes, series |-> ChildSeries,
      seriesErr |-> f.seriesErr, nextErr |-> f.nextErr,
      exprKind |-> exprKind, op |-> op, scalarSide |-> side, scalar |-> 3,
      aggregation |-> agg, by |-> TRUE, labels |-> labels ]

FullRange == [mint |-> 0, maxt |-> MaxT, step |-> 1]
InstantRange == [mint |-> 0, maxt |-> 0, step |-> 0]

\* A step-invariant subtree is evaluated by its child at a single step; a
\* child that breaks the contract returns up to StepsBatch step vectors.
StepInvariantEnv(rg, sc, f) ==
    EnvOf("stepInvariant", rg, sc, f, "VectorSelector", "+", "Right", "sum", {})

\* A matrix selector under the step-invariant operator: no caching.
PassThroughEnv(rg, sc, f) ==
    EnvOf("stepInvariant", rg, sc, f, "MatrixSelector", "+", "Right", "sum", {})

\* A subquery under the step-invariant operator: no caching either.
SubqueryEnv(rg, sc, f) ==
    EnvOf("stepInvariant", rg, sc, f, "SubqueryExpr", "+", "Right", "sum", {})

ScalarEnv(rg, sc, f, op, side) ==
    EnvOf("scalar", rg, sc, f, "BinaryExpr", op, side, "sum", {})

AggregateEnv(rg, sc, f, agg, labels) ==
    EnvOf("aggregate", rg, sc, f, "AggregateExpr", "+", "Right", agg, labels)

Operations == {"+", ">", ">bool"}
Sides == {"Left", "Right"}
Aggregations == {"sum", "count"}
Groupings == {{}, {"pod"}}

NoCall == [op |-> "none", ctxDone |-> FALSE, out |-> NilBatch, err |-> NoErr,
           pulled |-> FALSE, list |-> <<>>]

EmptyVector == [kind |-> "vector", data |-> <<>>]

\* The query before Exec: pc is Exec's position; held counts the buffers Exec
\* received from Next and has not returned; received lists the step vectors
\* Next returned, ended says that Next returned the end of the stream; cancel
\* is the field q.cancel, nil or the cancel function Exec stored; calls lists
\* the calls of Cancel and Close; the rest records what happened.
IdleQuery ==
    [ pc              |-> "idle",
      cancel          |-> "nil",
      calls           |-> <<>>,
      ret             |-> [Value |-> EmptyVector, Err |-> NoErr],
      series          |-> <<>>,
      cancelCalled    |-> FALSE,
      panicked        |-> "none",
      opErr           |-> NoErr,
      nextAfterErr    |-> 0,
      cancelMid       |-> FALSE,
      nextAfterCancel |-> 0,
      held            |-> 0,
      received        |-> <<>>,
      ended           |-> FALSE ]

\* New(opts): the engine, its fallback counter at zero and no query asked for.
\* queriesTrue / queriesFalse are the two children of promql_engine_queries_total;
\* promQueries counts the queries handed to the reference engine.
NoNewQuery ==
    [call |-> "none", outcome |-> "none", err |-> NoErr, parsed |-> FALSE,
     planBuilt |-> FALSE, type |-> "none", buildErr |-> NoErr]

New(disableFallback) ==
    [ disableFallback |-> disableFallback,
      queriesTrue     |-> 0,
      queriesFalse    |-> 0,
      promQueries     |-> 0,
      made            |-> 0,
      last            |-> NoNewQuery ]

\* The worker group of the aggregate, each worker with a request and a
\* response channel of capacity 1 (<<>> is an empty channel), as seen between
\* two calls of aggregate.Next. respFor[k] is the T of the step vector whose
\* output worker k put on its response channel last.
IdleWorkers ==
    [ pc       |-> "idle",
      i        |-> 1,
      in       |-> <<>>,
      result   |-> <<>>,
      req      |-> [k \in 1..StepsBatch |-> <<>>],
      resp     |-> [k \in 1..StepsBatch |-> <<>>],
      respFor  |-> [k \in 1..StepsBatch |-> -1],
      wpc      |-> [k \in 1..StepsBatch |-> "wait"],
      wvec     |-> [k \in 1..StepsBatch |-> <<>>],
      inPool   |-> {},
      finished |-> <<>>,
      st0      |-> <<>>,
      ret      |-> [out |-> NilBatch, err |-> NoErr] ]

\* newSeriesSelector over a storage that is never read: no caller.
NoSelector ==
    [ once    |-> "new",
      series  |-> <<>>,
      loads   |-> 0,
      storage |-> [n |-> 0, fail |-> "none", after |-> 0],
      thr     |-> <<>> ]

\* The state outside the engine facade.
\* NewSelectorPool(queryable): an empty map; created counts the selectors made,
\* calls lists the calls in order.
NewSelectorPool == [selectors |-> <<>>, created |-> 0, calls |-> <<>>]

\* No function applied.
NoApply == [f |-> "none"]

InitPure == sp = NewSelectorPool /\ fn = NoApply

InitRest == wg = IdleWorkers /\ sel = NoSelector /\ InitPure

\* Where the engine facade plays no part, it is an engine that is never asked.
InitOthers == eng = New(FALSE) /\ InitRest

InitOperators(e) ==
    /\ env = e
    /\ ctxDone = FALSE
    /\ u = NewStepInvariantOperator(e.mint, e.maxt, e.step, e.exprKind, StepsBatch)
    /\ o = NewScalar(e.op, e.scalarSide, e.scalar)
    /\ a = NewHashAggregate(e.aggregation, e.by, e.labels, StepsBatch)
    /\ next = [pos |-> 0, failed |-> FALSE]
    /\ pools = NewVectorPools
    /\ last = NoCall
    /\ emittedT = <<>>
    /\ sawEmpty = FALSE
    /\ firstSeries = [called |-> FALSE, list |-> <<>>, err |-> NoErr]

InitStepInvariant ==
    \E rg \in Ranges, sc \in Scripts(StepsBatch), f \in Faults :
        rg.mint <= rg.maxt /\ InitOperators(StepInvariantEnv(rg, sc, f))

InitPassThrough ==
    \E sc \in Scripts(MaxChildSteps), f \in Faults :
        InitOperators(PassThroughEnv(FullRange, sc, f))

InitSubquery ==
    \E sc \in Scripts(MaxChildSteps), f \in Faults :
        InitOperators(SubqueryEnv(FullRange, sc, f))

InitScalar ==
    \E sc \in Scripts(MaxChildSteps), f \in Faults, op \in Operations, side \in Sides :
        InitOperators(ScalarEnv(FullRange, sc, f, op, side))

InitAggregate ==
    \E sc \in Scripts(MaxChildSteps), f \in Faults, agg \in Aggregations, labels \in Groupings :
        InitOperators(AggregateEnv(FullRange, sc, f, agg, labels))

Init ==
    /\ InitStepInvariant \/ InitPassThrough \/ InitSubquery \/ InitScalar \/ InitAggregate
    /\ q = IdleQuery
    /\ InitOthers

(***************************************************************************)
(* A consumer that calls Series and Next on the root in any order, under a *)
(* context that may be cancelled at any time.                              *)
(***************************************************************************)
CallNext ==
    \E r \in {rootNext(env, State, ctxDone)} :
       /\ r.err # Blocked
       /\ SetState([r.st EXCEPT !.pools = IF r.out.isNil THEN @ ELSE putBack(@, r.out.v, 1)])
       /\ last' = [op |-> "Next", ctxDone |-> ctxDone, out |-> r.out, err |-> r.err,
                   pulled |-> r.pulled, list |-> <<>>]
       /\ emittedT' = emittedT \o [i \in 1..Len(r.out.v) |-> r.out.v[i].T]
       /\ sawEmpty' = (sawEmpty \/ (last.op = "Next" /\ last.err = NoErr /\ Len(last.out.v) = 0))
       /\ UNCHANGED <<env, ctxDone, firstSeries, q, Others>>

CallSeries ==
    \E r \in {rootSeries(env, State)} :
       /\ SetState(r.st)
       /\ last' = [op |-> "Series", ctxDone |-> ctxDone, out |-> NilBatch, err |-> r.err,
                   pulled |-> FALSE, list |-> r.list]
       /\ firstSeries' = IF firstSeries.called THEN firstSeries
                         ELSE [called |-> TRUE, list |-> r.list, err |-> r.err]
       /\ sawEmpty' = (sawEmpty \/ (last.op = "Next" /\ last.err = NoErr /\ Len(last.out.v) = 0))
       /\ UNCHANGED <<env, ctxDone, emittedT, q, Others>>

CtxCancel ==
    /\ ~ctxDone
    /\ ctxDone' = TRUE
    /\ UNCHANGED <<env, u, o, a, next, pools, last, emittedT, sawEmpty, firstSeries, q, Others>>

Next == CallNext \/ CallSeries \/ CtxCancel

Spec == Init /\ [][Next]_vars

(***************************************************************************)
(* Properties of the operators, checked under Spec.                        *)
(***************************************************************************)
IsPrefix(x, y) == Len(x) <= Len(y) /\ \A i \in 1..Len(x) : x[i] = y[i]

Distinct(xs) == \A i, j \in 1..Len(xs) : i # j => xs[i] # xs[j]

\* The evaluation timestamps of the query range: mint, mint + step, ... <= maxt,
\* a step of 0 counting as 1.
ExpectedTs ==
    LET s == IF env.step = 0 THEN 1 ELSE env.step
    IN [k \in 1..((env.maxt - env.mint) \div s + 1) |-> env.mint + (k - 1) * s]

Caching == env.root = "stepInvariant" /\ u.cacheResult

\* C1: with caching enabled and a non-empty cached vector, the timestamps the
\* step-invariant operator emits over successive Next calls are exactly
\* mint, mint + step, ... up to the last value <= maxt, in batches of at most
\* stepsBatch; the terminal batch comes only after the last of them and every
\* Next after that returns it; an instant query emits exactly one step vector.
C1_StepInvariantTimestamps ==
    (Caching /\ Len(u.cachedVector.Samples) > 0) =>
        /\ IsPrefix(emittedT, ExpectedTs)
        /\ (last.op = "Next" => Len(last.out.v) <= StepsBatch)
        /\ (last.op = "Next" /\ last.err = NoErr /\ last.out.isNil => emittedT = ExpectedTs)
        /\ (last.op = "Next" /\ emittedT = ExpectedTs /\ Len(last.out.v) = 0
                => last.out.isNil /\ last.err = NoErr)
        /\ (env.mint = env.maxt /\ last.op = "Next" /\ last.err = NoErr /\ last.out.isNil
                => Len(emittedT) = 1)

\* A range of three steps was emitted in two batches and the terminal batch followed.
C1_Witness ==
    /\ Caching /\ Len(u.cachedVector.Samples) > 0
    /\ Len(ExpectedTs) > StepsBatch
    /\ emittedT = ExpectedTs
    /\ last.op = "Next" /\ last.out.isNil /\ last.err = NoErr

\* An instant query (step 0) emitted its single step vector.
C1_WitnessInstant ==
    /\ Caching /\ env.step = 0 /\ env.mint = env.maxt
    /\ Len(emittedT) = 1 /\ last.op = "Next" /\ last.out.isNil /\ last.err = NoErr

\* C2: with caching enabled, every step vector the step-invariant operator
\* emits carries the SampleIDs and Samples, in order, of the single step vector
\* its child returned on the first Next.
C2_StepInvariantSamples ==
    (Caching /\ last.op = "Next") =>
        \A i \in 1..Len(last.out.v) :
            /\ last.out.v[i].SampleIDs = childVector(env, 1).SampleIDs
            /\ last.out.v[i].Samples = childVector(env, 1).Samples

\* A second batch was emitted, of a cached vector with two samples.
C2_Witness ==
    /\ Caching /\ last.op = "Next"
    /\ Len(emittedT) > StepsBatch
    /\ Len(last.out.v) > 0
    /\ Len(last.out.v[1].Samples) = 2

\* C3: a Next call returns a zero-length batch only when the stream has
\* terminated: once a Next has returned a zero-length batch without error, no
\* later Next returns step vectors.
C3_EmptyIffTerminated ==
    (last.op = "Next" /\ last.err = NoErr /\ Len(last.out.v) > 0) => ~sawEmpty

\* C4: every step vector returned by Next of the aggregate (vectorised table),
\* the vector-scalar operator and the step-invariant operator has as many
\* Samples as SampleIDs, pairwise distinct SampleIDs, each smaller than the
\* length of the operator's Series list, the child's step vectors being so.
WellFormed(v, n) ==
    /\ Len(v.Samples) = Len(v.SampleIDs)
    /\ Distinct(v.SampleIDs)
    /\ \A i \in 1..Len(v.SampleIDs) : v.SampleIDs[i] < n

C4_Covered ==
    IF env.root = "aggregate" THEN a.tableKind = "vector" ELSE ~env.seriesErr

C4_StepVectorsWellFormed ==
    (last.op = "Next" /\ C4_Covered) =>
        \A i \in 1..Len(last.out.v) :
            WellFormed(last.out.v[i], Len(rootSeries(env, State).list))

\* The vectorised aggregate returned a step vector holding its one sample.
C4_Witness ==
    /\ env.root = "aggregate" /\ a.tableKind = "vector"
    /\ last.op = "Next" /\ Len(last.out.v) > 0
    /\ Len(last.out.v[1].Samples) = 1

\* C5: Series returns the same value, list or error, on every call, in any
\* order relative to Next calls.
C5_SeriesIdempotent ==
    last.op = "Series" => (last.list = firstSeries.list /\ last.err = firstSeries.err)

\* C6: a Next call made with a cancelled context returns the context's
\* error without pulling from the child, in every state of the operator.
C6_NextPollsContext ==
    (last.op = "Next" /\ last.ctxDone) => (last.err = Canceled /\ ~last.pulled)

(***************************************************************************)
(* compatibilityQuery.Exec: the engine facade driving the root operator.   *)
(***************************************************************************)
\* Mutant: the error is written only over an error already present.
newErrResultKeepsNil(r, err) ==
    IF r.Err # NoErr /\ err # NoErr THEN [r EXCEPT !.Err = err] ELSE r

newErrResult(r, err) ==
    IF r.Err = NoErr /\ err # NoErr THEN [r EXCEPT !.Err = err] ELSE r

\* recoverEngine: e is the recovered panic value, "none" when there was no
\* panic, "runtime" for a runtime.Error, "other" for any other value. Only a
\* runtime.Error is written to the result.
recoverEngine(ret, e) ==
    IF e = "none" THEN ret
    ELSE IF e = "runtime" THEN [ret EXCEPT !.Err = UnexpectedErr]
    ELSE ret

\* Mutant: cancel is called at the end of Exec instead of being deferred, so a
\* panic skips it.
deferredCancelNotDeferred(qr, ret, e) ==
    [qr EXCEPT !.pc = "done",
               !.panicked = e,
               !.cancelCalled = (e = "none"),
               !.ret = recoverEngine(ret, e)]

\* What runs when Exec returns with result ret or panics with value e: the
\* deferred cancel, then the deferred recoverEngine.
deferred(qr, ret, e) ==
    [qr EXCEPT !.pc = "done",
               !.panicked = e,
               !.cancelCalled = TRUE,
               !.ret = recoverEngine(ret, e)]

\* Byte order of the label names and values in use.
StrOrder == <<"__name__", "a", "b", "m", "pod">>
StrRank(str) == CHOOSE i \in 1..Len(StrOrder) : StrOrder[i] = str

\* labels.Compare(x, y) < 0
RECURSIVE LabelsLess(_, _)
LabelsLess(x, y) ==
    IF Len(y) = 0 THEN FALSE
    ELSE IF Len(x) = 0 THEN TRUE
    ELSE IF x[1][1] # y[1][1] THEN StrRank(x[1][1]) < StrRank(y[1][1])
    ELSE IF x[1][2] # y[1][2] THEN StrRank(x[1][2]) < StrRank(y[1][2])
    ELSE LabelsLess(Tail(x), Tail(y))

\* sort.Sort(resultMatrix): by labels.
RECURSIVE InsertSorted(_, _)
InsertSorted(m, x) ==
    IF Len(m) = 0 THEN <<x>>
    ELSE IF LabelsLess(x.Metric, m[1].Metric) THEN <<x>> \o m
    ELSE <<m[1]>> \o InsertSorted(Tail(m), x)

RECURSIVE SortMatrix(_)
SortMatrix(m) == IF Len(m) = 0 THEN <<>> ELSE InsertSorted(SortMatrix(Tail(m)), m[1])

\* The samples of one step vector appended to the series they name; an id
\* beyond the series list is an index-out-of-range panic.
RECURSIVE appendPoints(_, _, _)
appendPoints(series, vector, i) ==
    IF i > Len(vector.SampleIDs) THEN [series |-> series, panic |-> "none"]
    ELSE LET sid == vector.SampleIDs[i]
         IN IF sid >= Len(series) \/ i > Len(vector.Samples)
            THEN [series |-> series, panic |-> "runtime"]
            ELSE appendPoints(
                    [series EXCEPT ![sid + 1].Points =
                        Append(@, [T |-> vector.T, V |-> vector.Samples[i]])],
                    vector, i + 1)

\* The loop over the batch: points appended, then the vector returned to the
\* root's pool; after the last one the batch is returned.
RECURSIVE execBatch(_, _, _, _)
execBatch(series, pl, r, k) ==
    IF k > Len(r) THEN [series |-> series, pools |-> PutVectors(pl, "root"),
                        held |-> 0, panic |-> "none"]
    ELSE LET p == appendPoints(series, r[k], 1)
         IN IF p.panic # "none"
            THEN [series |-> p.series, pools |-> pl, held |-> Len(r) - k + 2,
                  panic |-> p.panic]
            ELSE execBatch(p.series, PutStepVector(pl, "root"), r, k + 1)

\* The case of a root that published no series but returns samples: the
\* series are made from the sample positions of the batch.
RECURSIVE execBatchNoSeries(_, _, _, _)
execBatchNoSeries(series, pl, r, k) ==
    IF k > Len(r) THEN [series |-> series, pools |-> PutVectors(pl, "root"),
                        held |-> 0, panic |-> "none"]
    ELSE execBatchNoSeries(
            [i \in 1..Len(series) |->
                IF i <= Len(r[k].Samples)
                THEN [series[i] EXCEPT !.Points =
                         Append(@, [T |-> r[k].T, V |-> r[k].Samples[i]])]
                ELSE series[i]],
            PutStepVector(pl, "root"), r, k + 1)

\* Mutant: series without points are kept.
nonEmptySeriesAll(series) == series

\* The series that have points, in their order.
nonEmptySeries(series) == SelectSeq(series, LAMBDA x : Len(x.Points) # 0)

\* The result of a completed stream. NaN is the string "NaN".
execValue(e, series) ==
    IF e.tsZero
    THEN [panic |-> "none",
          value |-> [kind |-> "matrix",
                     data |-> SortMatrix(nonEmptySeries(series))]]
    ELSE CASE e.exprType = "matrix" ->
                [panic |-> "none", value |-> [kind |-> "matrix", data |-> series]]
           [] e.exprType = "vector" ->
                [panic |-> "none",
                 value |-> [kind |-> "vector",
                            data |-> LET kept == nonEmptySeries(series)
                                     IN [i \in 1..Len(kept) |->
                                            [Metric |-> kept[i].Metric,
                                             V |-> kept[i].Points[1].V, T |-> e.mint]]]]
           [] e.exprType = "scalar" ->
                IF Len(series) = 0
                THEN [panic |-> "none", value |-> [kind |-> "scalar", data |-> [V |-> "NaN", T |-> e.mint]]]
                ELSE IF Len(series[1].Points) = 0
                THEN [panic |-> "runtime", value |-> [kind |-> "vector", data |-> <<>>]]
                ELSE [panic |-> "none",
                      value |-> [kind |-> "scalar",
                                 data |-> [V |-> series[1].Points[1].V, T |-> e.mint]]]
           [] OTHER ->
                [panic |-> "other", value |-> [kind |-> "vector", data |-> <<>>]]

\* The query as the engine built it: by NewInstantQuery or NewRangeQuery,
\* whether its field ts is the zero time.Time (NewRangeQuery leaves it unset,
\* NewInstantQuery stores the caller's ts), the static type of the
\* expression, and whether the storage below panics in Series or Next.
WithQuery(e, instant, tsZero, exprType, panicIn, panicKind) ==
    e @@ [instant |-> instant, tsZero |-> tsZero, exprType |-> exprType,
          panicIn |-> panicIn, panicKind |-> panicKind]

\* The values of q.ts.Equal(time.Time{}) a query can have.
TsZero(instant) == IF instant THEN BOOLEAN ELSE {TRUE}

\* The storage panics in Series or in Next; it does so only in a query whose
\* child has no other fault.
Panics(f) ==
    IF f.seriesErr \/ f.nextErr # "none" THEN {[in |-> "none", kind |-> "runtime"]}
    ELSE { [in |-> "none",   kind |-> "runtime"],
           [in |-> "Series", kind |-> "runtime"],
           [in |-> "Series", kind |-> "other"],
           [in |-> "Next",   kind |-> "runtime"],
           [in |-> "Next",   kind |-> "other"] }

\* A range query runs over [0, MaxT] at step 1, an instant query at 0.
QueryRanges == {FullRange, InstantRange}
IsInstant(rg) == rg.mint = rg.maxt /\ rg.step = 0

\* A step-invariant expression is a vector or a scalar.
InitExecStepInvariant ==
    \E rg \in QueryRanges, sc \in Scripts(StepsBatch), f \in Faults,
       ty \in {"vector", "scalar"} :
        \E p \in Panics(f), z \in TsZero(IsInstant(rg)) :
            InitOperators(WithQuery(StepInvariantEnv(rg, sc, f), IsInstant(rg), z, ty,
                                    p.in, p.kind))

\* A matrix selector is the root of instant queries only.
InitExecPassThrough ==
    \E sc \in Scripts(MaxChildSteps), f \in Faults :
        \E p \in Panics(f), z \in TsZero(TRUE) :
            InitOperators(WithQuery(PassThroughEnv(InstantRange, sc, f), TRUE, z, "matrix",
                                    p.in, p.kind))

InitExecScalar ==
    \E rg \in QueryRanges, sc \in Scripts(MaxChildSteps), f \in Faults,
       op \in Operations, side \in Sides :
        \E p \in Panics(f), z \in TsZero(IsInstant(rg)) :
            InitOperators(WithQuery(ScalarEnv(rg, sc, f, op, side), IsInstant(rg), z, "vector",
                                    p.in, p.kind))

InitExecAggregate ==
    \E rg \in QueryRanges, sc \in Scripts(MaxChildSteps), f \in Faults,
       agg \in Aggregations, labels \in Groupings :
        \E p \in Panics(f), z \in TsZero(IsInstant(rg)) :
            InitOperators(WithQuery(AggregateEnv(rg, sc, f, agg, labels), IsInstant(rg), z,
                                    "vector", p.in, p.kind))

InitExec ==
    /\ InitExecStepInvariant \/ InitExecPassThrough \/ InitExecScalar \/ InitExecAggregate
    /\ q = IdleQuery
    /\ InitOthers

UnchangedOperators == UNCHANGED <<u, o, a, next, pools>>
UnchangedConsumer == UNCHANGED <<env, last, emittedT, sawEmpty, firstSeries, Others>>

\* Exec returns (or panics): the deferred calls run.
ExecReturn(qr, ret, e) ==
    /\ q' = deferred(qr, ret, e)
    /\ ctxDone' = TRUE

\* The query record with this call of Next counted: one more call after the
\* context was cancelled, one more after an operator returned an error.
ExecCounted ==
    [q EXCEPT !.nextAfterCancel = @ + (IF ctxDone THEN 1 ELSE 0),
              !.nextAfterErr = @ + (IF q.opErr # NoErr THEN 1 ELSE 0)]

\* The body of the loop for a batch r that is not nil: the branch for a root
\* that published no series, or the appending branch.
execLoopBody(series, pl, r) ==
    IF Len(series) = 0 /\ Len(r) # 0
    THEN execBatchNoSeries([i \in 1..SumSeq([k \in 1..Len(r) |-> Len(r[k].Samples)]) |->
                               [Metric |-> <<>>, Points |-> <<>>]],
                           pl, r, 1)
    ELSE execBatch(series, pl, r, 1)

\* ret is made, the context derived from the caller's, the deferred calls set
\* up and the cancel function stored in q.cancel.
ExecBegin ==
    /\ q.pc = "idle"
    /\ q' = [q EXCEPT !.pc = "series", !.cancel = "set"]
    /\ UNCHANGED ctxDone
    /\ UnchangedOperators
    /\ UnchangedConsumer

\* resultSeries, err := q.Query.exec.Series(ctx)
ExecSeries ==
    /\ q.pc = "series"
    /\ IF env.panicIn = "Series"
       THEN ExecReturn(q, q.ret, env.panicKind) /\ UnchangedOperators
       ELSE \E r \in {rootSeries(env, State)} :
               /\ SetState(r.st)
               /\ IF r.err # NoErr
                  THEN ExecReturn([q EXCEPT !.opErr = r.err], newErrResult(q.ret, r.err), "none")
                  ELSE /\ q' = [q EXCEPT !.pc = "loop",
                                         !.series = [i \in 1..Len(r.list) |->
                                                        [Metric |-> r.list[i], Points |-> <<>>]]]
                       /\ UNCHANGED ctxDone
    /\ UnchangedConsumer

\* The select at the head of the loop.
ExecSelect ==
    /\ q.pc = "loop"
    /\ IF ctxDone
       THEN ExecReturn(q, newErrResult(q.ret, Canceled), "none")
       ELSE q' = [q EXCEPT !.pc = "next"] /\ UNCHANGED ctxDone
    /\ UnchangedOperators
    /\ UnchangedConsumer

\* r, err := q.Query.exec.Next(ctx) and the rest of the loop body.
ExecNext ==
    /\ q.pc = "next"
    /\ IF env.panicIn = "Next"
       THEN ExecReturn(ExecCounted, q.ret, env.panicKind) /\ UnchangedOperators
       ELSE \E r \in {rootNext(env, State, ctxDone)} :
               /\ r.err # Blocked
               /\ IF r.err # NoErr
                  THEN /\ ExecReturn([ExecCounted EXCEPT !.opErr = r.err],
                                     newErrResult(q.ret, r.err), "none")
                       /\ SetState(r.st)
                  ELSE IF r.out.isNil
                  THEN /\ q' = [ExecCounted EXCEPT !.pc = "shape", !.ended = TRUE]
                       /\ UNCHANGED ctxDone
                       /\ SetState(r.st)
                  ELSE \E b \in {execLoopBody(q.series, r.st.pools, r.out.v)} :
                          /\ SetState([r.st EXCEPT !.pools = b.pools])
                          /\ IF b.panic # "none"
                             THEN ExecReturn([ExecCounted EXCEPT !.series = b.series,
                                                                 !.held = b.held,
                                                                 !.received = @ \o r.out.v],
                                             q.ret, b.panic)
                             ELSE /\ q' = [ExecCounted EXCEPT !.pc = "loop",
                                                              !.series = b.series,
                                                              !.received = @ \o r.out.v]
                                  /\ UNCHANGED ctxDone
    /\ UnchangedConsumer

\* The stream has ended: the result is shaped and Exec returns.
ExecShape ==
    /\ q.pc = "shape"
    /\ \E v \in {execValue(env, q.series)} :
          IF v.panic # "none"
          THEN ExecReturn(q, q.ret, v.panic)
          ELSE ExecReturn(q, [q.ret EXCEPT !.Value = v.value], "none")
    /\ UnchangedOperators
    /\ UnchangedConsumer

\* The caller's context is cancelled while the query exists. cancelMid: it
\* happened after Series had returned and before Next returned the terminal batch.
ExecCtxCancel ==
    /\ ~ctxDone
    /\ q.pc \notin {"none", "done"}
    /\ ctxDone' = TRUE
    /\ q' = [q EXCEPT !.cancelMid = (q.pc \in {"loop", "next"})]
    /\ UnchangedOperators
    /\ UnchangedConsumer

NextExec == ExecBegin \/ ExecSeries \/ ExecSelect \/ ExecNext \/ ExecShape \/ ExecCtxCancel

SpecExec == InitExec /\ [][NextExec]_vars

(***************************************************************************)
(* The engine facade: NewInstantQuery and NewRangeQuery build a query or   *)
(* hand it to the reference engine; Exec runs the queries that were built. *)
(***************************************************************************)
MaxQueries == 2      \* construction calls on one engine

NotImplemented == "not implemented"
ParseErr == "parse error"
InvalidType == "invalid expression type for range Query"
BuildErr == "plan construction error"

\* parser.ParseExpr: the expressions asked for. root is the operator at the
\* root of the plan of an expression that can be planned.
Exprs ==
    { [parses |-> FALSE, type |-> "none",   root |-> "none"],
      [parses |-> TRUE,  type |-> "vector", root |-> "aggregate"],
      [parses |-> TRUE,  type |-> "vector", root |-> "scalar"],
      [parses |-> TRUE,  type |-> "vector", root |-> "stepInvariant"],
      [parses |-> TRUE,  type |-> "scalar", root |-> "stepInvariant"],
      [parses |-> TRUE,  type |-> "matrix", root |-> "passThrough"],
      [parses |-> TRUE,  type |-> "string", root |-> "none"] }

\* What building the plan may answer for an expression.
BuildErrs == {NoErr, NotSupportedExpr, NotImplemented, BuildErr}

\* execution.New: a string literal is rejected with NotImplemented; for any
\* other expression the verdict b of the planner.
executionNew(expr, b) == IF expr.type = "string" THEN NotImplemented ELSE b

\* Mutant: fallback whatever the option says.
triggerFallbackAlways(e, err) == err \in {NotSupportedExpr, NotImplemented}

triggerFallback(e, err) ==
    IF e.disableFallback THEN FALSE
    ELSE err \in {NotSupportedExpr, NotImplemented}

\* Mutant: no check of the expression type.
rangeTypeOkAny(type) == TRUE

\* expr.Type() is ValueTypeVector or ValueTypeScalar
rangeTypeOk(type) == type \in {"vector", "scalar"}

NewQueryRet(call, expr, outcome, err, planBuilt, b, label) ==
    [ last  |-> [call |-> call, outcome |-> outcome, err |-> err, parsed |-> expr.parses,
                 planBuilt |-> planBuilt, type |-> expr.type, buildErr |-> b],
      label |-> label ]

\* From execution.New on, the two constructors are the same.
newQueryBuild(e, call, expr, b) ==
    LET err == executionNew(expr, b)
    IN IF triggerFallback(e, err)
       THEN NewQueryRet(call, expr, "prom", NoErr, TRUE, err, "true")
       ELSE IF err # NoErr
       THEN NewQueryRet(call, expr, "error", err, TRUE, err, "false")
       ELSE NewQueryRet(call, expr, "query", NoErr, TRUE, err, "false")

NewInstantQuery(e, expr, b) ==
    IF ~expr.parses THEN NewQueryRet("instant", expr, "error", ParseErr, FALSE, NoErr, "none")
    ELSE newQueryBuild(e, "instant", expr, b)

NewRangeQuery(e, expr, b) ==
    IF ~expr.parses THEN NewQueryRet("range", expr, "error", ParseErr, FALSE, NoErr, "none")
    ELSE IF ~rangeTypeOk(expr.type)
    THEN NewQueryRet("range", expr, "error", InvalidType, FALSE, NoErr, "none")
    ELSE newQueryBuild(e, "range", expr, b)

\* The operators execution.New returns for a plan, over a storage with a
\* stream of one step vector per step.
Stream(n) == [n |-> n, shapes |-> [i \in 1..n |-> [ids |-> <<0>>, vals |-> <<1>>]]]
NoFault == [seriesErr |-> FALSE, nextErr |-> "none"]

BuiltEnv(call, expr, tsZero) ==
    LET rg == IF call = "instant" THEN InstantRange ELSE FullRange
        e == CASE expr.root = "aggregate"   -> AggregateEnv(rg, Stream(rg.maxt + 1), NoFault, "sum", {})
               [] expr.root = "scalar"      -> ScalarEnv(rg, Stream(rg.maxt + 1), NoFault, "+", "Right")
               [] expr.root = "passThrough" -> PassThroughEnv(rg, Stream(1), NoFault)
               [] OTHER                     -> StepInvariantEnv(rg, Stream(1), NoFault)
    IN WithQuery(e, call = "instant", tsZero, expr.type, "none", "runtime")

Operators(e) ==
    [ u     |-> NewStepInvariantOperator(e.mint, e.maxt, e.step, e.exprKind, StepsBatch),
      o     |-> NewScalar(e.op, e.scalarSide, e.scalar),
      a     |-> NewHashAggregate(e.aggregation, e.by, e.labels, StepsBatch),
      next  |-> [pos |-> 0, failed |-> FALSE],
      pools |-> NewVectorPools ]

NoQuery == [IdleQuery EXCEPT !.pc = "none"]

InitNew ==
    /\ \E d \in BOOLEAN : eng = New(d)
    /\ InitRest
    /\ InitOperators(BuiltEnv("range", CHOOSE x \in Exprs : x.root = "aggregate", TRUE))
    /\ q = NoQuery

\* The engine after a construction call, and the query if one was built.
Constructed(r, call, expr, tsZero) ==
    /\ eng' = [eng EXCEPT !.last = r.last,
                          !.made = @ + 1,
                          !.queriesTrue = @ + (IF r.label = "true" THEN 1 ELSE 0),
                          !.queriesFalse = @ + (IF r.label = "false" THEN 1 ELSE 0),
                          !.promQueries = @ + (IF r.last.outcome = "prom" THEN 1 ELSE 0)]
    /\ IF r.last.outcome = "query"
       THEN /\ env' = BuiltEnv(call, expr, tsZero)
            /\ SetState(Operators(BuiltEnv(call, expr, tsZero)))
            /\ q' = IdleQuery
            /\ ctxDone' = FALSE
       ELSE UNCHANGED <<env, u, o, a, next, pools, q, ctxDone>>
    /\ UNCHANGED <<last, emittedT, sawEmpty, firstSeries, wg, sel, sp, fn>>

CallNewInstantQuery ==
    /\ q.pc \in {"none", "done"}
    /\ eng.made < MaxQueries
    /\ \E expr \in Exprs, b \in BuildErrs, z \in BOOLEAN :
          \E r \in {NewInstantQuery(eng, expr, b)} : Constructed(r, "instant", expr, z)

CallNewRangeQuery ==
    /\ q.pc \in {"none", "done"}
    /\ eng.made < MaxQueries
    /\ \E expr \in Exprs, b \in BuildErrs :
          \E r \in {NewRangeQuery(eng, expr, b)} : Constructed(r, "range", expr, TRUE)

NextNew ==
    \/ CallNewInstantQuery \/ CallNewRangeQuery
    \/ ExecBegin \/ ExecSeries \/ ExecSelect \/ ExecNext \/ ExecShape \/ ExecCtxCancel

SpecNew == InitNew /\ [][NextNew]_vars

(***************************************************************************)
(* Properties of the constructors, checked under SpecNew.                  *)
(***************************************************************************)
\* C11: a query is handed to the reference engine exactly when fallback is
\* not disabled and building the plan failed with NotSupportedExpr or
\* NotImplemented; with DisableFallback the reference engine is never used
\* and the construction error is returned; any other construction error is
\* returned; and running a constructed query never uses the reference engine.
C11_ConstructionOutcome ==
    /\ eng.last.call # "none" =>
          /\ eng.last.outcome = "prom" <=>
                /\ ~eng.disableFallback
                /\ eng.last.planBuilt
                /\ eng.last.buildErr \in {NotSupportedExpr, NotImplemented}
          /\ (eng.last.planBuilt /\ eng.last.buildErr # NoErr /\ eng.last.outcome # "prom")
                => (eng.last.outcome = "error" /\ eng.last.err = eng.last.buildErr)
          /\ (eng.last.outcome = "query") <=> (eng.last.planBuilt /\ eng.last.buildErr = NoErr)
    /\ eng.disableFallback => eng.promQueries = 0
    /\ eng.promQueries = eng.queriesTrue

\* The reference engine is used only in the step of a construction call, and
\* that step neither builds nor runs a query.
C11_FallbackStep ==
    eng'.promQueries # eng.promQueries
        => (eng'.made = eng.made + 1 /\ eng'.last.outcome = "prom" /\ q' = q)

C11_FallbackOnlyAtConstruction == []C11_ConstructionOutcome /\ [][C11_FallbackStep]_vars

\* Fallback: an expression the planner does not support, fallback enabled.
C11_Witness ==
    /\ eng.last.outcome = "prom" /\ eng.last.buildErr = NotSupportedExpr
    /\ eng.promQueries = 1

\* DisableFallback: the construction error surfaces.
C11_WitnessDisabled ==
    /\ eng.disableFallback /\ eng.last.outcome = "error" /\ eng.last.err = NotImplemented

\* A constructed query has run to its end after an earlier fallback.
C11_WitnessExec ==
    /\ q.pc = "done" /\ eng.promQueries = 1 /\ eng.made = 2 /\ q.ret.Err = NoErr

\* C12: NewRangeQuery fails with the invalid-type error for every expression
\* that is neither vector nor scalar, before a plan is built and without
\* fallback; NewInstantQuery makes no such check and builds matrix queries.
C12_RangeQueryTypeCheck ==
    /\ (eng.last.call = "range" /\ eng.last.parsed /\ eng.last.type \notin {"vector", "scalar"})
          => /\ eng.last.outcome = "error"
             /\ eng.last.err = InvalidType
             /\ ~eng.last.planBuilt
    /\ (eng.last.call = "instant" /\ eng.last.parsed) => eng.last.planBuilt
    /\ (eng.last.call = "instant" /\ eng.last.type = "matrix" /\ eng.last.buildErr = NoErr)
          => eng.last.outcome = "query"
    /\ eng.last.err = InvalidType => eng.last.call = "range"

\* A range query over a matrix expression was refused with fallback enabled.
C12_Witness ==
    /\ eng.last.call = "range" /\ eng.last.type = "matrix" /\ eng.last.err = InvalidType
    /\ ~eng.disableFallback

\* An instant query over a matrix expression was built.
C12_WitnessInstant ==
    /\ eng.last.call = "instant" /\ eng.last.type = "matrix" /\ eng.last.outcome = "query"
    /\ q.pc = "done" /\ q.ret.Value.kind = "matrix" /\ q.ret.Err = NoErr

(***************************************************************************)
(* aggregate.Next with its workers: the caller sends step vector i to      *)
(* worker i, the workers run workerTask concurrently, the caller collects  *)
(* the outputs.  A pool operation takes time: a thread is in wg.inPool from *)
(* its begin to its end.                                                   *)
(***************************************************************************)
\* Mutant: the i-th output is taken from the i-th worker to finish.
collectFromFinished(wk, i) == IF Len(wk.finished) >= i THEN wk.finished[i] ELSE i

\* The worker whose output the i-th GetOutput of the collect loop reads.
collectFrom(wk, i) == i

InitWorkers ==
    /\ \E sc \in Scripts(MaxChildSteps), f \in Faults, agg \in Aggregations, labels \in Groupings :
          InitOperators(AggregateEnv(FullRange, sc, f, agg, labels))
    /\ q = IdleQuery
    /\ InitOthers

UnchangedQuery ==
    UNCHANGED <<env, ctxDone, u, o, last, emittedT, sawEmpty, firstSeries, q, eng, sel, sp, fn>>

\* Next returns: the deferred PutVectors(in) has run where it was set up.
AggReturn(wk, st, out, err) ==
    /\ wg' = [wk EXCEPT !.pc = "done", !.ret = [out |-> out, err |-> err]]
    /\ SetState(st)

\* Next up to a.vectorPool.GetVectorBatch(): the context is polled, the child
\* read, the tables initialised once and the workers started.
AggNextBegin ==
    /\ wg.pc \in {"idle", "done"}
    /\ \E r \in {childNext(env, State, ctxDone)} :
        LET wk == [wg EXCEPT !.st0 = State, !.in = r.out.v, !.result = <<>>,
                            !.finished = <<>>, !.i = 1]
        IN IF ctxDone THEN AggReturn(wk, State, NilBatch, Canceled)
           ELSE IF r.err # NoErr THEN AggReturn(wk, r.st, NilBatch, r.err)
           ELSE IF r.out.isNil THEN AggReturn(wk, r.st, NilBatch, NoErr)
           ELSE \E s \in {IF r.st.a.once THEN [st |-> r.st, err |-> NoErr]
                          ELSE initializeTables(env, [r.st EXCEPT !.a.once = TRUE])} :
                   IF s.err # NoErr
                   THEN AggReturn(wk, [s.st EXCEPT !.pools = PutVectors(@, "child")],
                                  NilBatch, s.err)
                   ELSE /\ wg' = [wk EXCEPT !.pc = "getBatch", !.inPool = @ \cup {0}]
                        /\ SetState(s.st)
    /\ UnchangedQuery

\* a.vectorPool.GetVectorBatch() returns to the caller (thread 0).
AggGetBatchEnd ==
    /\ wg.pc = "getBatch"
    /\ wg' = [wg EXCEPT !.pc = "send", !.inPool = @ \ {0}]
    /\ pools' = GetVectorBatch(pools, "root")
    /\ UNCHANGED <<a, next>>
    /\ UnchangedQuery

\* a.workers[i].Send(vector) of the first loop: the vector goes on the request
\* channel of worker i; under a cancelled context Send gives the context's
\* error and Next returns it.
AggSend ==
    /\ wg.pc = "send"
    /\ IF ctxDone
       THEN AggReturn(wg, [State EXCEPT !.pools = PutVectors(@, "child")], NilBatch, Canceled)
       ELSE /\ wg.req[wg.i] = <<>>
            /\ wg' = [wg EXCEPT !.req[wg.i] = <<wg.in[wg.i]>>,
                              !.i = IF wg.i = Len(wg.in) THEN 1 ELSE wg.i + 1,
                              !.pc = IF wg.i = Len(wg.in) THEN "collect" ELSE "send"]
            /\ UNCHANGED <<a, next, pools>>
    /\ UnchangedQuery

\* a.workers[i].GetOutput() of the second loop, the append and the return of
\* the input vector to the child's pool; after the last one Next returns.
AggCollect ==
    /\ wg.pc = "collect"
    /\ IF ctxDone
       THEN AggReturn(wg, [State EXCEPT !.pools = PutVectors(@, "child")], NilBatch, Canceled)
       ELSE /\ \E k \in {collectFrom(wg, wg.i)} :
               /\ wg.resp[k] # <<>>
               /\ LET wk == [wg EXCEPT !.resp[k] = <<>>,
                                      !.result = Append(@, wg.resp[k][1]),
                                      !.i = @ + 1]
                      pl == PutStepVector(pools, "child")
                  IN IF wg.i = Len(wg.in)
                     THEN /\ wg' = [wk EXCEPT !.pc = "done",
                                             !.ret = [out |-> Batch(wk.result), err |-> NoErr]]
                          /\ pools' = PutVectors(pl, "child")
                     ELSE /\ wg' = wk
                          /\ pools' = pl
            /\ UNCHANGED <<a, next>>
    /\ UnchangedQuery

\* Worker k, waiting, finds the context cancelled and exits.
WorkerExit(k) ==
    /\ a.started
    /\ wg.wpc[k] = "wait"
    /\ ctxDone
    /\ wg' = [wg EXCEPT !.wpc[k] = "exited"]
    /\ UNCHANGED <<a, next, pools>>
    /\ UnchangedQuery

\* Worker k takes the vector from its request channel.
WorkerReceive(k) ==
    /\ a.started
    /\ wg.wpc[k] = "wait"
    /\ wg.req[k] # <<>>
    /\ wg' = [wg EXCEPT !.wpc[k] = "aggregate", !.wvec[k] = wg.req[k], !.req[k] = <<>>]
    /\ UNCHANGED <<a, next, pools>>
    /\ UnchangedQuery

\* workerTask: table.aggregate(vector) on the table of this worker.
WorkerAggregate(k) ==
    /\ wg.wpc[k] = "aggregate"
    /\ a' = [a EXCEPT !.tables[k] = workerTask(a, k, wg.wvec[k][1]).table]
    /\ wg' = [wg EXCEPT !.wpc[k] = "toVector"]
    /\ UNCHANGED <<next, pools>>
    /\ UnchangedQuery

\* workerTask: table.toVector(a.vectorPool) calls pool.GetStepVector.
WorkerToVectorBegin(k) ==
    /\ wg.wpc[k] = "toVector"
    /\ wg' = [wg EXCEPT !.wpc[k] = "inPool", !.inPool = @ \cup {k}]
    /\ UNCHANGED <<a, next, pools>>
    /\ UnchangedQuery

\* GetStepVector returns, toVector fills the vector, and the worker puts it on
\* its response channel. (The table was aggregated already; workerTask over
\* it gives the same table and the output of toVector.)
WorkerToVectorEnd(k) ==
    /\ wg.wpc[k] = "inPool"
    /\ wg.resp[k] = <<>>
    /\ wg' = [wg EXCEPT !.wpc[k] = "wait", !.inPool = @ \ {k}, !.wvec[k] = <<>>,
                      !.resp[k] = <<workerTask(a, k, wg.wvec[k][1]).output>>,
                      !.respFor[k] = wg.wvec[k][1].T,
                      !.finished = Append(@, k)]
    /\ pools' = GetStepVector(pools, "root")
    /\ UNCHANGED <<a, next>>
    /\ UnchangedQuery

Worker(k) ==
    \/ WorkerReceive(k) \/ WorkerAggregate(k) \/ WorkerToVectorBegin(k) \/ WorkerToVectorEnd(k)

\* The context handed to Next and to the workers is cancelled.
AggCtxCancel ==
    /\ ~ctxDone
    /\ ctxDone' = TRUE
    /\ UNCHANGED <<env, u, o, a, next, pools, last, emittedT, sawEmpty, firstSeries, q, Others>>

NextWorkers ==
    \/ AggNextBegin \/ AggGetBatchEnd \/ AggSend \/ AggCollect
    \/ \E k \in 1..StepsBatch : Worker(k)

SpecWorkers == InitWorkers /\ [][NextWorkers]_vars

\* The same under a context that may be cancelled at any point: a waiting
\* worker then exits.
NextServe ==
    \/ NextWorkers
    \/ AggCtxCancel
    \/ \E k \in 1..StepsBatch : WorkerExit(k)

SpecServe == InitWorkers /\ [][NextServe]_vars

\* C16: an aggregate Next over a non-empty batch of n vectors returns what the
\* sequential reading of the loops returns: n outputs, the i-th being the
\* output of worker i with table i for in[i], whatever the order in which the
\* workers finish; the operator is left in the same state.
C16_OutputsInInputOrder ==
    (wg.pc = "done" /\ Len(wg.in) > 0 /\ wg.ret.err = NoErr) =>
        /\ Len(wg.ret.out.v) = Len(wg.in)
        /\ wg.ret.out = aggregateNext(env, wg.st0, FALSE).out
        /\ State = aggregateNext(env, wg.st0, FALSE).st

\* Worker 2 finished before worker 1, and their outputs differ.
C16_Witness ==
    /\ wg.pc = "done" /\ Len(wg.in) = 2 /\ wg.ret.err = NoErr
    /\ wg.finished = <<2, 1>>
    /\ wg.ret.out.v[1] # wg.ret.out.v[2]
    /\ Len(wg.ret.out.v[1].Samples) > 0 /\ Len(wg.ret.out.v[2].Samples) > 0

\* C18: no two threads are at the same time inside an operation on the
\* aggregate's vector pool.
C18_PoolAccessExclusive == Cardinality(wg.inPool) <= 1

(***************************************************************************)
(* seriesSelector: threads call GetSeries concurrently; the load runs      *)
(* under sync.Once.                                                        *)
(***************************************************************************)
Callers == 2         \* threads calling GetSeries on one selector
StorageSeries == 3   \* series the storage holds for the matchers
MaxShards == 2       \* largest numShards

\* The storage: n matching series; Querier may fail, or the series set may
\* fail after having produced `after` series.
Storages ==
    { [n |-> n, fail |-> "none", after |-> 0] : n \in 0..StorageSeries }
    \cup { [n |-> n, fail |-> "querier", after |-> 0] : n \in 0..StorageSeries }
    \cup { [n |-> n, fail |-> "iterate", after |-> k] : n \in 1..StorageSeries, k \in 0..(StorageSeries - 1) }

SignedSeries(i) == [Series |-> i, Signature |-> i]

\* The series set a complete load stores: Signature is the ordinal.
Loaded(n) == [i \in 1..n |-> SignedSeries(i - 1)]

\* Mutant: the series of a shard are renumbered from 0.
seriesShardRenumbered(series, shard, numShards) ==
    LET start == (shard * Len(series)) \div numShards
        end   == ((shard + 1) * Len(series)) \div numShards
    IN [i \in 1..(end - start) |-> [series[start + i] EXCEPT !.Signature = i - 1]]

\* seriesShard: series[start:end]
seriesShard(series, shard, numShards) ==
    LET start == (shard * Len(series)) \div numShards
        end0  == ((shard + 1) * Len(series)) \div numShards
        end   == IF end0 > Len(series) THEN Len(series) ELSE end0
    IN SubSeq(series, start + 1, end)

IdleCaller ==
    [pc |-> "idle", shard |-> 0, numShards |-> 1, err |-> NoErr, ret |-> <<>>,
     retErr |-> NoErr, onceAtReturn |-> "new"]

InitSelector ==
    /\ InitOperators(AggregateEnv(FullRange, Stream(1), NoFault, "sum", {}))
    /\ q = IdleQuery
    /\ eng = New(FALSE)
    /\ wg = IdleWorkers
    /\ InitPure
    /\ \E st \in Storages :
          sel = [NoSelector EXCEPT !.storage = st, !.thr = [t \in 1..Callers |-> IdleCaller]]

UnchangedBySelector ==
    UNCHANGED <<env, ctxDone, u, o, a, next, pools, last, emittedT, sawEmpty, firstSeries, q,
                eng, wg, sp, fn>>

\* Thread t calls GetSeries(ctx, shard, numShards): var err error.
GetSeriesCall(t) ==
    /\ sel.thr[t].pc \in {"idle", "returned"}
    /\ \E numShards \in 1..MaxShards : \E shard \in 0..(numShards - 1) :
          sel' = [sel EXCEPT !.thr[t] = [IdleCaller EXCEPT !.pc = "once", !.shard = shard,
                                                           !.numShards = numShards]]
    /\ UnchangedBySelector

\* o.once.Do: a thread that finds the Once done goes on; one that finds it new
\* runs the function; one that finds it running waits for it to return.
OnceDo(t) ==
    /\ sel.thr[t].pc = "once"
    /\ sel.once # "running"
    /\ sel' = IF sel.once = "done"
              THEN [sel EXCEPT !.thr[t].pc = "afterOnce"]
              ELSE [sel EXCEPT !.once = "running", !.thr[t].pc = "querier"]
    /\ UnchangedBySelector

\* loadSeries: o.storage.Querier(ctx, o.mint, o.maxt)
LoadQuerier(t) ==
    /\ sel.thr[t].pc = "querier"
    /\ sel' = IF sel.storage.fail = "querier"
              THEN [sel EXCEPT !.loads = @ + 1, !.once = "done",
                               !.thr[t].err = StorageErr, !.thr[t].pc = "afterOnce"]
              ELSE [sel EXCEPT !.loads = @ + 1, !.thr[t].pc = "iterate"]
    /\ UnchangedBySelector

\* loadSeries: one turn of `for seriesSet.Next()`, or its end with
\* `return seriesSet.Err()`, after which once.Do returns.
LoadIterate(t) ==
    /\ sel.thr[t].pc = "iterate"
    /\ LET k == Len(sel.series)
           failed == sel.storage.fail = "iterate" /\ k >= sel.storage.after
       IN sel' = IF k < sel.storage.n /\ ~failed
                 THEN [sel EXCEPT !.series = Append(@, SignedSeries(k))]
                 ELSE [sel EXCEPT !.once = "done", !.thr[t].pc = "afterOnce",
                                  !.thr[t].err = IF failed THEN StorageErr ELSE NoErr]
    /\ UnchangedBySelector

\* if err != nil { return nil, err }; return seriesShard(o.series, shard, numShards), nil
GetSeriesReturn(t) ==
    /\ sel.thr[t].pc = "afterOnce"
    /\ sel' = [sel EXCEPT !.thr[t].pc = "returned",
                          !.thr[t].onceAtReturn = sel.once,
                          !.thr[t].retErr = sel.thr[t].err,
                          !.thr[t].ret = IF sel.thr[t].err # NoErr THEN <<>>
                                         ELSE seriesShard(sel.series, sel.thr[t].shard,
                                                          sel.thr[t].numShards)]
    /\ UnchangedBySelector

NextSelector ==
    \E t \in 1..Callers :
        \/ GetSeriesCall(t) \/ OnceDo(t) \/ LoadQuerier(t) \/ LoadIterate(t)
        \/ GetSeriesReturn(t)

SpecSelector == InitSelector /\ [][NextSelector]_vars

Returned(t) == sel.thr[t].pc = "returned"

\* The storage load ran at most once, and no call returned before it ended.
C20_LoadedOnce ==
    /\ sel.loads <= 1
    /\ \A t \in 1..Callers : Returned(t) => sel.thr[t].onceAtReturn = "done"

\* C20: over any interleaving of GetSeries calls on one selector the storage
\* load runs at most once, every call returns only after the load has ended,
\* and every call that returns series returns its shard of the fully loaded
\* series set.
C20_SelectorLoadsOnce ==
    /\ C20_LoadedOnce
    /\ \A t \in 1..Callers :
          (Returned(t) /\ sel.thr[t].retErr = NoErr)
              => sel.thr[t].ret = seriesShard(Loaded(sel.storage.n), sel.thr[t].shard,
                                              sel.thr[t].numShards)

\* Two threads called concurrently, one loaded, both returned shards of the
\* loaded set.
C20_WitnessLoaded ==
    /\ sel.storage.fail = "none" /\ sel.storage.n = StorageSeries /\ sel.loads = 1
    /\ \A t \in 1..Callers : Returned(t) /\ sel.thr[t].retErr = NoErr
    /\ sel.thr[1].numShards = 2 /\ sel.thr[1].shard = 0 /\ Len(sel.thr[1].ret) > 0
    /\ sel.thr[2].numShards = 2 /\ sel.thr[2].shard = 1 /\ Len(sel.thr[2].ret) > 0

(***************************************************************************)
(* Properties of Exec, checked under SpecExec.                             *)
(***************************************************************************)
\* C7: if the context is cancelled after the root's Series has returned and
\* before Next has returned the end of the stream, Exec returns the
\* cancellation error after at most one more call to Next, holding none of
\* the buffers it received. (Returns through a panic are left aside.)
C7_CancelledExecReturnsCanceled ==
    (q.pc = "done" /\ q.cancelMid /\ q.panicked = "none")
        => (q.ret.Err = Canceled /\ q.nextAfterCancel <= 1 /\ q.held = 0)

\* C8: whenever Exec has returned, by completion, by an error of Series or
\* Next, by cancellation or through a recovered panic, the cancel function of
\* the derived context has been called.
C8_CancelAlwaysCalled == q.pc = "done" => q.cancelCalled

\* Exec returned through a recovered panic.
C8_Witness == q.pc = "done" /\ q.panicked = "runtime" /\ q.cancelCalled

\* Exec returned by normal completion of a stream that had samples.
C8_WitnessCompleted ==
    /\ q.pc = "done" /\ q.panicked = "none" /\ q.ret.Err = NoErr /\ q.cancelCalled
    /\ q.ret.Value.kind = "matrix" /\ Len(q.ret.Value.data) > 0

\* C9: when the root's Series or one of its Next calls returned an error, the
\* result of Exec carries exactly that error and Exec called Next no more.
C9_OperatorErrorTransported ==
    (q.pc = "done" /\ q.opErr # NoErr) => (q.ret.Err = q.opErr /\ q.nextAfterErr = 0)

\* The second call of Next failed in the storage.
C9_Witness ==
    /\ q.pc = "done" /\ q.opErr = StorageErr /\ q.ret.Err = StorageErr
    /\ env.nextErr = "second" /\ next.pos >= 1

\* C10: after a panic during Exec the returned result has a non-nil Err.
C10_PanicSurfacesAsError ==
    (q.pc = "done" /\ q.panicked # "none") => q.ret.Err # NoErr

(***************************************************************************)
(* Result shaping, checked under SpecExec.                                 *)
(***************************************************************************)
\* The points the received step vectors hold for the series with ordinal sid,
\* in the order Next returned them.
RECURSIVE PointsOf(_, _, _)
PointsOf(received, sid, k) ==
    IF k > Len(received) THEN <<>>
    ELSE LET v == received[k]
             at == {i \in 1..Len(v.SampleIDs) : v.SampleIDs[i] = sid}
         IN (IF at = {} THEN <<>>
             ELSE <<[T |-> v.T, V |-> v.Samples[CHOOSE i \in at : TRUE]]>>)
            \o PointsOf(received, sid, k + 1)

\* The ordinals of the published series that received a point.
WithPoints == {sid \in 0..(Len(q.series) - 1) : Len(PointsOf(q.received, sid, 1)) > 0}

SortedByLabels(m) ==
    \A k \in 1..(Len(m) - 1) : ~LabelsLess(m[k + 1].Metric, m[k].Metric)

RangeCompleted ==
    /\ q.pc = "done" /\ ~env.instant /\ q.ended
    /\ q.panicked = "none" /\ q.ret.Err = NoErr

InstantCompleted(type) ==
    /\ q.pc = "done" /\ env.instant /\ env.exprType = type /\ q.ended

\* C14: an instant query of scalar type whose stream ended (at a ts other
\* than the zero time) returns without error a Scalar at ts: the value of the
\* first point, NaN when no series was published or none received a point.
C14_InstantScalar ==
    (InstantCompleted("scalar") /\ ~env.tsZero) =>
        /\ q.ret.Err = NoErr
        /\ q.ret.Value.kind = "scalar"
        /\ q.ret.Value.data.T = env.mint
        /\ q.ret.Value.data.V =
              IF 0 \in WithPoints THEN PointsOf(q.received, 0, 1)[1].V ELSE "NaN"

\* C15: an instant query of vector type that completes returns a Vector with
\* one sample per published series that received a point: the labels of the
\* series, the value of its first point, and the timestamp ts.
C15_InstantVector ==
    (InstantCompleted("vector") /\ q.panicked = "none" /\ q.ret.Err = NoErr) =>
        /\ q.ret.Value.kind = "vector"
        /\ Len(q.ret.Value.data) = Cardinality(WithPoints)
        /\ \A sid \in WithPoints :
              \E k \in 1..Len(q.ret.Value.data) :
                 q.ret.Value.data[k] = [Metric |-> q.series[sid + 1].Metric,
                                        V |-> PointsOf(q.received, sid, 1)[1].V,
                                        T |-> env.mint]

\* The same for the instant queries whose ts is not the zero time.
C15_InstantVectorAtTs == env.tsZero \/ C15_InstantVector

\* An instant vector query returned two samples at ts.
C15_WitnessAtTs ==
    /\ InstantCompleted("vector") /\ ~env.tsZero /\ q.ret.Err = NoErr
    /\ q.ret.Value.kind = "vector" /\ Len(q.ret.Value.data) = 2

(***************************************************************************)
(* The timestamps of the aggregate's batches, checked under Spec.          *)
(***************************************************************************)
\* C17: in a batch returned by the aggregate's Next the step vectors are in
\* strictly increasing T, and the i-th carries the T of the i-th input step
\* vector (the child's vectors next.pos - n + 1 .. next.pos), also when that
\* input step vector has no samples.
C17_AggregateTimestamps ==
    (env.root = "aggregate" /\ last.op = "Next" /\ last.err = NoErr /\ Len(last.out.v) > 0) =>
        LET n == Len(last.out.v)
        IN /\ \A i \in 1..n : last.out.v[i].T = childVector(env, next.pos - n + i).T
           /\ \A i \in 1..(n - 1) : last.out.v[i].T < last.out.v[i + 1].T

(***************************************************************************)
(* Pool round trip, checked under SpecExec.                                *)
(***************************************************************************)
\* C19: when Exec has driven a query over a step-invariant operator to the end
\* of its stream and returned, no step vector and no batch of any pool is
\* still on loan.
C19_PoolRoundTrip ==
    (q.pc = "done" /\ q.ended /\ q.panicked = "none" /\ env.root = "stepInvariant")
        => (pools.root = NoLoans /\ pools.child = NoLoans /\ q.held = 0)

(***************************************************************************)
(* SelectorPool: GetSelector and GetFilteredSelector on one pool.          *)
(***************************************************************************)
MaxPoolCalls == 2    \* calls on one selector pool

sep == "<ff>"

\* The digest is modelled by the bytes written to it; Sum64 is taken to be
\* free of collisions, so the key is that byte string.
writeString(sb, val) == sb \o val \o sep
writeInt64(sb, val) == sb \o ToString(val) \o sep
writeBool(sb, val) == sb \o (IF val THEN "true" ELSE "false") \o sep

\* strconv.Itoa(int(m.Type))
writeMatcher(sb, mt) == writeString(writeString(writeString(sb, mt.Name), ToString(mt.Type)), mt.Value)

RECURSIVE writeMatchers(_, _)
writeMatchers(sb, matchers) ==
    IF Len(matchers) = 0 THEN sb
    ELSE writeMatchers(writeMatcher(sb, Head(matchers)), Tail(matchers))

\* strings.Join(elems, ";")
RECURSIVE Join(_)
Join(elems) ==
    IF Len(elems) = 0 THEN ""
    ELSE IF Len(elems) = 1 THEN elems[1]
    ELSE elems[1] \o ";" \o Join(Tail(elems))

hashMatchers(matchers, mint, maxt, hints) ==
    writeBool(
      writeString(
        writeString(
          writeInt64(
            writeInt64(
              writeInt64(writeMatchers("", matchers), mint),
              maxt),
            hints.Step),
          hints.Func),
        Join(hints.Grouping)),
      hints.By)

\* newShardedStorageSeriesSelector: a new selector object, named by its number.
newShardedStorageSeriesSelector(p, mint, maxt, step, matchers, hints) ==
    [id |-> p.created + 1, mint |-> mint, maxt |-> maxt, step |-> step,
     matchers |-> matchers, hints |-> hints]

\* if _, ok := p.selectors[key]; !ok { p.selectors[key] = new... }
poolEnsure(p, key, mint, maxt, step, matchers, hints) ==
    IF key \in DOMAIN p.selectors THEN p
    ELSE [p EXCEPT !.selectors = (key :> newShardedStorageSeriesSelector(
                                              p, mint, maxt, step, matchers, hints)) @@ @,
                   !.created = @ + 1]

\* GetSelector: the pool after the call and the selector returned.
GetSelector(p, mint, maxt, step, matchers, hints) ==
    LET key == hashMatchers(matchers, mint, maxt, hints)
        p1 == poolEnsure(p, key, mint, maxt, step, matchers, hints)
    IN [p |-> p1, key |-> key, ret |-> [kind |-> "storage", selector |-> p1.selectors[key]]]

\* GetFilteredSelector: NewFilteredSelector(p.selectors[key], NewFilter(filters))
GetFilteredSelector(p, mint, maxt, step, matchers, filters, hints) ==
    LET key == hashMatchers(matchers, mint, maxt, hints)
        p1 == poolEnsure(p, key, mint, maxt, step, matchers, hints)
    IN [p |-> p1, key |-> key,
        ret |-> [kind |-> "filtered", selector |-> p1.selectors[key], filter |-> filters]]

\* The arguments the calls are made with.
MatchEqual == 0
MatchRegexp == 2
PoolMatchers ==
    { << [Name |-> "__name__", Type |-> MatchEqual, Value |-> "m"] >>,
      << [Name |-> "__name__", Type |-> MatchEqual, Value |-> "m"],
         [Name |-> "pod", Type |-> MatchRegexp, Value |-> "a"] >> }
PoolFilters == { <<>>, << [Name |-> "pod", Type |-> MatchEqual, Value |-> "a"] >> }
PoolGroupings == { <<>>, <<"a", "b">>, <<"b", "a">> }
PoolHints ==
    { [Step |-> 0, Func |-> "sum", Grouping |-> g, By |-> b] : g \in PoolGroupings, b \in BOOLEAN }
PoolMaxts == 1..2

InitPool ==
    /\ InitOperators(AggregateEnv(FullRange, Stream(1), NoFault, "sum", {}))
    /\ q = IdleQuery
    /\ eng = New(FALSE)
    /\ wg = IdleWorkers
    /\ sel = NoSelector
    /\ InitPure

UnchangedByPool ==
    UNCHANGED <<env, ctxDone, u, o, a, next, pools, last, emittedT, sawEmpty, firstSeries, q,
                eng, wg, sel, fn>>

PoolCalled(p, r, matchers, maxt, hints) ==
    [p EXCEPT !.calls = Append(@, [key |-> r.key, ret |-> r.ret, matchers |-> matchers,
                                   mint |-> 0, maxt |-> maxt, hints |-> hints])]

CallGetSelector ==
    /\ Len(sp.calls) < MaxPoolCalls
    /\ \E matchers \in PoolMatchers, maxt \in PoolMaxts, step \in 0..1, hints \in PoolHints :
         \E r \in {GetSelector(sp, 0, maxt, step, matchers, hints)} :
            sp' = PoolCalled(r.p, r, matchers, maxt, hints)
    /\ UnchangedByPool

CallGetFilteredSelector ==
    /\ Len(sp.calls) < MaxPoolCalls
    /\ \E matchers \in PoolMatchers, maxt \in PoolMaxts, step \in 0..1, hints \in PoolHints,
          filters \in PoolFilters :
         \E r \in {GetFilteredSelector(sp, 0, maxt, step, matchers, filters, hints)} :
            sp' = PoolCalled(r.p, r, matchers, maxt, hints)
    /\ UnchangedByPool

NextPool == CallGetSelector \/ CallGetFilteredSelector

SpecPool == InitPool /\ [][NextPool]_vars

\* sorted(hints.Grouping)
RECURSIVE InsertStr(_, _)
InsertStr(xs, x) ==
    IF Len(xs) = 0 THEN <<x>>
    ELSE IF StrRank(x) < StrRank(xs[1]) THEN <<x>> \o xs
    ELSE <<xs[1]>> \o InsertStr(Tail(xs), x)

RECURSIVE SortStrings(_)
SortStrings(xs) == IF Len(xs) = 0 THEN <<>> ELSE InsertStr(SortStrings(Tail(xs)), xs[1])

\* The key of the specification: the grouping labels enter it sorted.
SortedKey(c) ==
    hashMatchers(c.matchers, c.mint, c.maxt,
                 [c.hints EXCEPT !.Grouping = SortStrings(@)])

PoolSelectors == {sp.selectors[k] : k \in DOMAIN sp.selectors}

\* The pool holds one selector per key it computed, and calls with the same
\* computed key got the same underlying selector.
C21_OnePerHashedKey ==
    /\ DOMAIN sp.selectors = {sp.calls[i].key : i \in 1..Len(sp.calls)}
    /\ Cardinality(PoolSelectors) = Cardinality(DOMAIN sp.selectors)
    /\ sp.created = Cardinality(PoolSelectors)
    /\ \A i \in 1..Len(sp.calls) : sp.calls[i].ret.selector = sp.selectors[sp.calls[i].key]
    /\ \A i \in 1..Len(sp.calls) :
          sp.calls[i].key = hashMatchers(sp.calls[i].matchers, sp.calls[i].mint,
                                         sp.calls[i].maxt, sp.calls[i].hints)

\* C21: after any sequence of GetSelector and GetFilteredSelector calls the
\* pool holds exactly one underlying selector per distinct key
\* H(matchers, mint, maxt, hints.Step, hints.Func, sorted(hints.Grouping),
\* hints.By): calls with equal keys get the same underlying selector, and the
\* order of the grouping labels does not change the key.
C21_OneSelectorPerKey ==
    /\ Cardinality(PoolSelectors) = Cardinality({SortedKey(sp.calls[i]) : i \in 1..Len(sp.calls)})
    /\ \A i, j \in 1..Len(sp.calls) :
          SortedKey(sp.calls[i]) = SortedKey(sp.calls[j])
              => /\ sp.calls[i].ret.selector = sp.calls[j].ret.selector
                 /\ sp.calls[i].key = sp.calls[j].key

\* A plain and a filtered call with the same arguments shared one selector.
C21_WitnessShared ==
    /\ Len(sp.calls) = 2 /\ sp.created = 1
    /\ sp.calls[1].ret.kind = "storage" /\ sp.calls[2].ret.kind = "filtered"
    /\ sp.calls[1].ret.selector = sp.calls[2].ret.selector
    /\ Len(sp.calls[1].hints.Grouping) = 2

\* Two calls that differ only in the order of the grouping labels.
C21_WitnessReordered ==
    /\ Len(sp.calls) = 2
    /\ sp.calls[1].hints.Grouping # sp.calls[2].hints.Grouping
    /\ SortedKey(sp.calls[1]) = SortedKey(sp.calls[2])

(***************************************************************************)
(* Sharding of the loaded series, checked under SpecSelector.              *)
(***************************************************************************)
\* The series at positions lo .. hi - 1 of the storage, signed by position.
Positions(lo, hi) == [i \in 1..(hi - lo) |-> [Series |-> lo + i - 1, Signature |-> lo + i - 1]]

RECURSIVE ShardsConcat(_, _, _)
ShardsConcat(series, shard, numShards) ==
    IF shard >= numShards THEN <<>>
    ELSE seriesShard(series, shard, numShards) \o ShardsConcat(series, shard + 1, numShards)

Signatures(series) == {series[i].Signature : i \in 1..Len(series)}

\* C22: for a selector with N loaded series, GetSeries(shard, numShards)
\* returns the series at positions [shard*N/numShards, (shard+1)*N/numShards)
\* of the loaded set, each signed with its position in the full set; the
\* shards are pairwise disjoint and in shard order they make up the loaded set.
C22_ShardsSliceLoadedSet ==
    LET N == Len(sel.series)
    IN sel.once = "done" =>
        /\ \A t \in 1..Callers :
              (Returned(t) /\ sel.thr[t].retErr = NoErr)
                  => sel.thr[t].ret = Positions((sel.thr[t].shard * N) \div sel.thr[t].numShards,
                                                ((sel.thr[t].shard + 1) * N) \div sel.thr[t].numShards)
        /\ \A numShards \in 1..MaxShards :
              /\ ShardsConcat(sel.series, 0, numShards) = sel.series
              /\ \A s1, s2 \in 0..(numShards - 1) :
                    s1 # s2 => Signatures(seriesShard(sel.series, s1, numShards))
                               \cap Signatures(seriesShard(sel.series, s2, numShards)) = {}

\* Three series in two shards: the second shard was returned, its series
\* signed 1 and 2.
C22_Witness ==
    /\ sel.once = "done" /\ Len(sel.series) = 3
    /\ \E t \in 1..Callers :
          /\ Returned(t) /\ sel.thr[t].retErr = NoErr
          /\ sel.thr[t].numShards = 2 /\ sel.thr[t].shard = 1
          /\ Len(sel.thr[t].ret) = 2 /\ sel.thr[t].ret[1].Signature = 1

\* More shards than series: an empty shard was returned.
C22_WitnessEmptyShard ==
    /\ sel.once = "done" /\ Len(sel.series) = 1
    /\ \E t \in 1..Callers :
          /\ Returned(t) /\ sel.thr[t].retErr = NoErr
          /\ sel.thr[t].numShards = 2 /\ sel.thr[t].shard = 0 /\ sel.thr[t].ret = <<>>

(***************************************************************************)
(* The step-invariant operator and its child, checked under Spec.          *)
(***************************************************************************)
\* The step is a call of Next on the root operator.
NextCalled == last'.op = "Next" /\ ctxDone' = ctxDone

\* A call of Next on the caching step-invariant operator reads the child
\* exactly when it runs the one-shot cache step; once that step has run, the
\* child and its pool are left alone and every step vector returned holds the
\* samples of the cached copy.
C23_NextStep ==
    (Caching /\ NextCalled) =>
        /\ last'.pulled <=> (~u.cacheVectorOnce /\ u'.cacheVectorOnce)
        /\ u.cacheVectorOnce =>
              /\ next' = next
              /\ pools'.child = pools.child
              /\ u'.cachedVector = u.cachedVector
              /\ \A i \in 1..Len(last'.out.v) :
                    /\ last'.out.v[i].Samples = u.cachedVector.Samples
                    /\ last'.out.v[i].SampleIDs = u.cachedVector.SampleIDs

\* C23: with caching enabled the step-invariant operator calls its child's Next
\* at most once over any sequence of its own Next calls, on the first Next that
\* reaches the cache step; every later batch is made from the cached copy
\* without touching the child.
C23_ChildReadOnce == [][C23_NextStep]_vars

\* A second batch was returned after the cache step, the child having been
\* read once.
C23_Witness ==
    /\ Caching /\ u.cacheVectorOnce /\ next.pos = 1
    /\ last.op = "Next" /\ ~last.pulled /\ Len(last.out.v) > 0
    /\ Len(emittedT) > StepsBatch

\* The last call was the Next that read the child, and the child's first batch
\* held more than one step vector.
ReadSeveralVectors ==
    /\ Caching /\ last.op = "Next" /\ last.pulled
    /\ env.nextErr # "first" /\ env.n > 1

\* C24: with caching enabled, whenever the child's first batch contains more
\* than one step vector, the step-invariant operator's Next fails with
\* `unexpected number of samples`, whatever those step vectors hold, also when
\* the first of them has no samples.
C24_SeveralVectorsRejected ==
    ReadSeveralVectors => last.err = UnexpectedSamples /\ last.out.isNil

\* The same for a first step vector that has samples.
C24_SeveralVectorsWithSamples ==
    (ReadSeveralVectors /\ Len(env.shapes[1].ids) > 0)
        => last.err = UnexpectedSamples /\ last.out.isNil

\* Two step vectors, the first with samples, were rejected.
C24_WitnessRejected ==
    /\ ReadSeveralVectors /\ Len(env.shapes[1].ids) > 0
    /\ last.err = UnexpectedSamples

\* Two step vectors, the first without samples: Next returned the terminal
\* batch without an error.
C24_WitnessAccepted ==
    /\ ReadSeveralVectors /\ Len(env.shapes[1].ids) = 0 /\ Len(env.shapes[2].ids) > 0
    /\ last.err = NoErr /\ last.out.isNil

\* The cache step has read a child whose first batch was empty or held a
\* single step vector without samples.
EmptyChildRead ==
    /\ Caching /\ u.cacheVectorOnce /\ env.nextErr # "first"
    /\ env.n = 0 \/ (env.n = 1 /\ Len(env.shapes[1].ids) = 0)

\* After the cache step no Next reads the child.
EmptyChildNextStep == (EmptyChildRead /\ NextCalled) => (~last'.pulled /\ next' = next)

\* C25: with caching enabled, if the child's first batch is empty or its single
\* step vector has no samples, the first Next returns the terminal batch with
\* no error and so does every subsequent Next; the operator never emits a step
\* vector and never calls the child again.
C25_EmptyChildTerminal ==
    /\ [](EmptyChildRead /\ last.op = "Next"
             => last.out.isNil /\ last.err = NoErr /\ emittedT = <<>>)
    /\ [][EmptyChildNextStep]_vars

\* C25 as the code has it: a subsequent Next made under a cancelled context
\* returns the cancellation error; every other Next returns the terminal batch
\* with no error.
C25_EmptyChildTerminalUnlessCancelled ==
    /\ [](EmptyChildRead /\ last.op = "Next"
             => /\ last.out.isNil /\ emittedT = <<>>
                /\ last.err = IF last.ctxDone THEN Canceled ELSE NoErr)
    /\ [][EmptyChildNextStep]_vars

\* The child's single step vector had no samples; a Next after the cache step
\* returned the terminal batch again.
C25_Witness ==
    /\ EmptyChildRead /\ env.n = 1
    /\ last.op = "Next" /\ ~last.pulled /\ ~last.ctxDone
    /\ last.out.isNil /\ last.err = NoErr

\* The same call under a context cancelled after the cache step.
C25_WitnessCancelled ==
    /\ EmptyChildRead /\ last.op = "Next" /\ last.ctxDone /\ last.err = Canceled

\* The step-invariant operator wraps a matrix selector or a subquery.
WrapsRange == env.root = "stepInvariant" /\ env.exprKind \in {"MatrixSelector", "SubqueryExpr"}

\* A Next of the operator returns what the child's Next returns for that call
\* and leaves the child as the child's Next leaves it; the operator's own
\* fields do not change.
C26_NextStep ==
    (WrapsRange /\ NextCalled) =>
        \E r \in {childNext(env, State, ctxDone)} :
            /\ last'.out = r.out
            /\ last'.err = r.err
            /\ next' = r.st.next
            /\ u' = u

\* C26: when the wrapped expression is a matrix selector or a subquery the
\* step-invariant operator is a pass-through: each Next returns exactly what the
\* child's Next returns for that call, no vector is cached or replicated, and
\* the stream ends exactly when the child's stream ends.
C26_PassThrough ==
    /\ [](WrapsRange => /\ ~u.cacheVectorOnce
                        /\ Len(u.cachedVector.Samples) = 0
                        /\ u.currentStep = u.mint)
    /\ [][C26_NextStep]_vars

\* The child's three step vectors came through in two batches, then the end.
C26_Witness ==
    /\ WrapsRange /\ env.n = MaxChildSteps /\ env.nextErr = "none"
    /\ last.op = "Next" /\ last.out.isNil /\ last.err = NoErr
    /\ Len(emittedT) = MaxChildSteps
    /\ \A k \in 1..MaxChildSteps : emittedT[k] = childVector(env, k).T

\* The same under a subquery, up to the child's error on its second call.
C26_WitnessSubquery ==
    /\ WrapsRange /\ env.exprKind = "SubqueryExpr" /\ env.nextErr = "second"
    /\ last.op = "Next" /\ last.err = StorageErr /\ Len(emittedT) = StepsBatch

(***************************************************************************)
(* The vectorised table on its own: newVectorizedTables for an aggregation *)
(* kind, then aggregate and toVector of the first table on one step vector.*)
(***************************************************************************)
MaxSamples == 3      \* most samples in the input step vector

\* parser.ItemTypeStr of the aggregation operators.
AggregationKinds ==
    {"sum", "min", "max", "avg", "count", "group", "stddev", "stdvar",
     "topk", "bottomk", "quantile", "count_values"}

SampleValues == {-2, 0, 3}

\* Step vectors at T = 1 with n samples, SampleIDs 0 .. n - 1.
InputVectors ==
    UNION { { StepVector(1, [i \in 1..n |-> i - 1], f) : f \in [1..n -> SampleValues] }
            : n \in 0..MaxSamples }

InitVectorTable ==
    /\ InitOperators(AggregateEnv(FullRange, Stream(1), NoFault, "sum", {}))
    /\ q = IdleQuery
    /\ eng = New(FALSE)
    /\ wg = IdleWorkers
    /\ sel = NoSelector
    /\ sp = NewSelectorPool
    /\ \E kind \in AggregationKinds, vector \in InputVectors :
          fn = [f |-> "vectorTable", pc |-> "new", kind |-> kind, vector |-> vector,
                err |-> NoErr, tables |-> <<>>, out |-> StepVector(0, <<>>, <<>>)]

UnchangedByApply ==
    UNCHANGED <<env, ctxDone, u, o, a, next, pools, last, emittedT, sawEmpty, firstSeries, q,
                eng, wg, sel, sp>>

CallNewVectorizedTables ==
    /\ fn.f = "vectorTable" /\ fn.pc = "new"
    /\ \E r \in {newVectorizedTables(StepsBatch, fn.kind)} :
          fn' = [fn EXCEPT !.pc = IF r.err = NoErr THEN "made" ELSE "failed",
                           !.err = r.err, !.tables = r.tables]
    /\ UnchangedByApply

CallTableAggregate ==
    /\ fn.f = "vectorTable" /\ fn.pc = "made"
    /\ fn' = [fn EXCEPT !.pc = "aggregated",
                        !.tables[1] = vectorTableAggregate(@, fn.kind, fn.vector)]
    /\ UnchangedByApply

CallTableToVector ==
    /\ fn.f = "vectorTable" /\ fn.pc = "aggregated"
    /\ fn' = [fn EXCEPT !.pc = "emitted", !.out = vectorTableToVector(fn.tables[1])]
    /\ UnchangedByApply

NextVectorTable == CallNewVectorizedTables \/ CallTableAggregate \/ CallTableToVector

SpecVectorTable == InitVectorTable /\ [][NextVectorTable]_vars

VectorisedKinds == {"sum", "min", "max", "avg", "count", "group", "stddev", "stdvar"}

\* C27: newVectorAccumulator returns an accumulator without error for each of
\* the eight kinds sum, min, max, avg, count, group, stddev and stdvar, and
\* fails with NotSupportedExpr for the other kinds only.
C27_EightAccumulators ==
    fn.pc # "new" =>
        /\ fn.err = newVectorAccumulator(fn.kind)
        /\ fn.err \in {NoErr, NotSupportedExpr}
        /\ fn.err = NoErr <=> fn.kind \in VectorisedKinds

\* The same without stddev.
C27_SevenAccumulators ==
    (fn.pc # "new" /\ fn.kind # "stddev") =>
        /\ fn.err \in {NoErr, NotSupportedExpr}
        /\ fn.err = NoErr <=> fn.kind \in VectorisedKinds

\* Tables were made for stdvar and aggregated a step vector.
C27_WitnessStdvar == fn.pc = "emitted" /\ fn.kind = "stdvar" /\ Len(fn.out.Samples) = 1

\* Tables for stddev were refused.
C27_WitnessStddev == fn.pc = "failed" /\ fn.kind = "stddev" /\ fn.err = NotSupportedExpr

\* The input step vector holds n >= 1 samples, all of one value.
Uniform(vector) ==
    /\ Len(vector.Samples) >= 1
    /\ \A i \in 1..Len(vector.Samples) : vector.Samples[i] = vector.Samples[1]

\* The value the specification gives for n samples of value x.
UniformValue(kind, n, x) ==
    CASE kind = "sum"   -> n * x
      [] kind = "avg"   -> x
      [] kind = "count" -> n
      [] kind = "group" -> 1
      [] kind \in {"min", "max"} -> x
      [] kind \in {"stdvar", "stddev"} -> 0

TableDone == fn.pc \in {"failed", "emitted"}

\* C28: for the vectorised table and an input step vector of n >= 1 samples all
\* equal to x, the emitted step vector holds one sample with SampleID 0 whose
\* value is n*x for sum, x for avg, n for count, 1 for group, x for min and
\* max, and 0 for stdvar and stddev.
C28_UniformInput ==
    (TableDone /\ fn.kind \in VectorisedKinds /\ Uniform(fn.vector)) =>
        /\ fn.pc = "emitted"
        /\ fn.out.SampleIDs = <<0>>
        /\ fn.out.Samples = <<UniformValue(fn.kind, Len(fn.vector.Samples), fn.vector.Samples[1])>>

\* The same for the kinds that have a vectorised table.
C28_UniformInputSevenKinds ==
    (TableDone /\ fn.kind \in VectorisedKinds \ {"stddev"} /\ Uniform(fn.vector)) =>
        /\ fn.pc = "emitted"
        /\ fn.out.SampleIDs = <<0>>
        /\ fn.out.Samples = <<UniformValue(fn.kind, Len(fn.vector.Samples), fn.vector.Samples[1])>>

\* Three samples of value 3 under avg gave one sample of value 3.
C28_WitnessAvg ==
    /\ fn.pc = "emitted" /\ fn.kind = "avg"
    /\ fn.vector.Samples = <<3, 3, 3>> /\ fn.out.Samples = <<3>>

\* Three samples of value -2 under stdvar gave 0.
C28_WitnessStdvar ==
    /\ fn.pc = "emitted" /\ fn.kind = "stdvar"
    /\ fn.vector.Samples = <<-2, -2, -2>> /\ fn.out.Samples = <<0>>

\* A uniform input under stddev: no vectorised table, nothing emitted.
C28_WitnessStddev ==
    /\ fn.pc = "failed" /\ fn.kind = "stddev" /\ Uniform(fn.vector)

(***************************************************************************)
(* The series of the vector-scalar operator, checked under Spec.           *)
(***************************************************************************)
Pairs(ls) == {ls[k] : k \in 1..Len(ls)}

\* ls is lbls without its `__name__` label: the same pairs otherwise, in the
\* same order.
WithoutName(ls, lbls) ==
    /\ Pairs(ls) = {p \in Pairs(lbls) : p[1] # "__name__"}
    /\ Len(ls) = Cardinality(Pairs(ls))
    /\ \A j, k \in 1..Len(ls) : j < k => StrRank(ls[j][1]) < StrRank(ls[k][1])

\* list is the child's series list, each entry without `__name__`.
ChildSeriesWithoutName(list) ==
    /\ Len(list) = Len(ChildSeries)
    /\ \A i \in 1..Len(list) : WithoutName(list[i], ChildSeries[i])

\* The child's step vector with timestamp t.
ChildVectorAt(t) == CHOOSE v \in {childVector(env, k) : k \in 1..env.n} : v.T = t

\* C29: the vector-scalar operator's Series returns a list of the length of
\* its child's Series in which entry i is the child's entry i without the
\* `__name__` label, all other labels unchanged; no result series has a
\* `__name__` label, and every SampleID that Next forwards from the child
\* names, in that list, the series it names in the child's list.
C29_SeriesWithoutName ==
    (env.root = "scalar" /\ ~env.seriesErr) =>
        /\ (last.op = "Series" => last.err = NoErr /\ ChildSeriesWithoutName(last.list))
        /\ (last.op = "Next" /\ last.err = NoErr /\ ~last.out.isNil) =>
              /\ ChildSeriesWithoutName(o.series)
              /\ \A i \in 1..Len(last.out.v) :
                    \A j \in 1..Len(last.out.v[i].SampleIDs) :
                        /\ \E k \in 1..Len(ChildVectorAt(last.out.v[i].T).SampleIDs) :
                              ChildVectorAt(last.out.v[i].T).SampleIDs[k] = last.out.v[i].SampleIDs[j]
                        /\ last.out.v[i].SampleIDs[j] < Len(o.series)

\* Series was called and returned the two series without their name.
C29_Witness ==
    /\ env.root = "scalar" /\ last.op = "Series" /\ last.err = NoErr
    /\ Len(last.list) = 2 /\ last.list[2] = << <<"pod", "b">> >>

\* Next forwarded the SampleIDs 1 and 0 of a child step vector.
C29_WitnessNext ==
    /\ env.root = "scalar" /\ last.op = "Next" /\ Len(last.out.v) > 0
    /\ last.out.v[1].SampleIDs = <<1, 0>>
    /\ o.series[2] = << <<"pod", "b">> >>

(***************************************************************************)
(* logicalplan.New: the `@` modifier turned into offsets.                  *)
(*                                                                         *)
(* time.Duration is an int64 count of nanoseconds and wraps on overflow.   *)
(* The model keeps that arithmetic at a reduced scale: a Duration of       *)
(* DurationBits bits and Millisecond units to the millisecond.             *)
(***************************************************************************)
DurationBits == 6    \* width of time.Duration in the model (64 in the program)
Millisecond == 4     \* time.Millisecond in Duration units (1000000 in the program)
MaxAt == 9           \* largest `@` timestamp, in milliseconds

\* The value of a signed integer of DurationBits bits.
WrapDuration(x) == ((x + 2 ^ (DurationBits - 1)) % (2 ^ DurationBits)) - 2 ^ (DurationBits - 1)

NoTimestamp == [set |-> FALSE, ms |-> 0]
At(ms) == [set |-> TRUE, ms |-> ms]

\* AST nodes as the parser leaves them: Offset is zero until the plan is made.
VectorSelector(ts, startOrEnd, originalOffset) ==
    [kind |-> "VectorSelector", Timestamp |-> ts, StartOrEnd |-> startOrEnd,
     OriginalOffset |-> originalOffset, Offset |-> 0]
MatrixSelector(vs) == [kind |-> "MatrixSelector", VectorSelector |-> vs]
SubqueryExpr(expr, ts, startOrEnd, originalOffset) ==
    [kind |-> "SubqueryExpr", Expr |-> expr, Timestamp |-> ts, StartOrEnd |-> startOrEnd,
     OriginalOffset |-> originalOffset, Offset |-> 0]
BinaryExpr(lhs, rhs) == [kind |-> "BinaryExpr", LHS |-> lhs, RHS |-> rhs]
StepInvariantExpr(expr) == [kind |-> "StepInvariantExpr", Expr |-> expr]

\* promql.PreprocessExpr: `@ start()` and `@ end()` become timestamps and the
\* step-invariant subtrees are wrapped.
resolveAt(node, start, end) ==
    IF node.StartOrEnd = "START" THEN [node EXCEPT !.Timestamp = At(start)]
    ELSE IF node.StartOrEnd = "END" THEN [node EXCEPT !.Timestamp = At(end)]
    ELSE node

RECURSIVE preprocessExprHelper(_, _, _)
preprocessExprHelper(node, start, end) ==
    CASE node.kind = "VectorSelector" ->
            LET n == resolveAt(node, start, end)
            IN [expr |-> n, invariant |-> n.Timestamp.set]
      [] node.kind = "MatrixSelector" ->
            LET r == preprocessExprHelper(node.VectorSelector, start, end)
            IN [expr |-> [node EXCEPT !.VectorSelector = r.expr], invariant |-> r.invariant]
      [] node.kind = "SubqueryExpr" ->
            LET r == preprocessExprHelper(node.Expr, start, end)
                inner == IF r.invariant THEN StepInvariantExpr(r.expr) ELSE r.expr
                n == resolveAt([node EXCEPT !.Expr = inner], start, end)
            IN [expr |-> n, invariant |-> n.Timestamp.set]
      [] node.kind = "BinaryExpr" ->
            LET l == preprocessExprHelper(node.LHS, start, end)
                r == preprocessExprHelper(node.RHS, start, end)
            IN IF l.invariant /\ r.invariant
               THEN [expr |-> [node EXCEPT !.LHS = l.expr, !.RHS = r.expr], invariant |-> TRUE]
               ELSE [expr |-> [node EXCEPT
                                 !.LHS = IF l.invariant THEN StepInvariantExpr(l.expr) ELSE l.expr,
                                 !.RHS = IF r.invariant THEN StepInvariantExpr(r.expr) ELSE r.expr],
                     invariant |-> FALSE]

PreprocessExpr(expr, start, end) ==
    LET r == preprocessExprHelper(expr, start, end)
    IN IF r.invariant THEN StepInvariantExpr(r.expr) ELSE r.expr

\* getOffset(ts, originalOffset, path) for the fields of a node.
getOffset(evalTime, node) ==
    IF ~node.Timestamp.set THEN node.OriginalOffset
    ELSE LET offsetForTs == WrapDuration(WrapDuration(evalTime - node.Timestamp.ms) * Millisecond)
             offsetDiff == offsetForTs
         IN WrapDuration(node.OriginalOffset + offsetDiff)

\* parser.Inspect with the function that sets the offsets, node by node.
RECURSIVE setOffsetForAtModifier(_, _)
setOffsetForAtModifier(evalTime, node) ==
    CASE node.kind = "VectorSelector" ->
            [node EXCEPT !.Offset = getOffset(evalTime, node)]
      [] node.kind = "MatrixSelector" ->
            LET vs == [node.VectorSelector EXCEPT !.Offset = getOffset(evalTime, node.VectorSelector)]
            IN [node EXCEPT !.VectorSelector = setOffsetForAtModifier(evalTime, vs)]
      [] node.kind = "SubqueryExpr" ->
            [node EXCEPT !.Offset = getOffset(evalTime, node),
                         !.Expr = setOffsetForAtModifier(evalTime, node.Expr)]
      [] node.kind = "BinaryExpr" ->
            [node EXCEPT !.LHS = setOffsetForAtModifier(evalTime, node.LHS),
                         !.RHS = setOffsetForAtModifier(evalTime, node.RHS)]
      [] node.kind = "StepInvariantExpr" ->
            [node EXCEPT !.Expr = setOffsetForAtModifier(evalTime, node.Expr)]

\* logicalplan.New(expr, mint, maxt): the plan's expression.
logicalplanNew(expr, mint, maxt) ==
    setOffsetForAtModifier(mint, PreprocessExpr(expr, mint, maxt))

\* The expressions the plan is made of.
AtModifiers ==
    { [ts |-> NoTimestamp, startOrEnd |-> "none"],
      [ts |-> At(0), startOrEnd |-> "none"],
      [ts |-> At(1), startOrEnd |-> "none"],
      [ts |-> At(MaxAt), startOrEnd |-> "none"],
      [ts |-> NoTimestamp, startOrEnd |-> "START"],
      [ts |-> NoTimestamp, startOrEnd |-> "END"] }
OriginalOffsets == {0, Millisecond, 0 - 2 * Millisecond}
VectorSelectors ==
    { VectorSelector(at.ts, at.startOrEnd, off) : at \in AtModifiers, off \in OriginalOffsets }
PlanExprs ==
    VectorSelectors
    \cup { MatrixSelector(vs) : vs \in VectorSelectors }
    \cup { SubqueryExpr(vs, at.ts, at.startOrEnd, off) :
             vs \in VectorSelectors, at \in AtModifiers, off \in {0, Millisecond} }
    \cup { BinaryExpr(vs, MatrixSelector(VectorSelector(at.ts, at.startOrEnd, 0))) :
             vs \in VectorSelectors, at \in AtModifiers }

InitPlan ==
    /\ InitOperators(AggregateEnv(FullRange, Stream(1), NoFault, "sum", {}))
    /\ q = IdleQuery
    /\ eng = New(FALSE)
    /\ wg = IdleWorkers
    /\ sel = NoSelector
    /\ sp = NewSelectorPool
    /\ \E expr \in PlanExprs, mint \in 1..2 :
          fn = [f |-> "logicalplan.New", pc |-> "parsed", parsed |-> expr, expr |-> expr,
                mint |-> mint, maxt |-> mint + 1]

\* logicalplan.New(expr, mint, maxt)
CallLogicalplanNew ==
    /\ fn.f = "logicalplan.New" /\ fn.pc = "parsed"
    /\ fn' = [fn EXCEPT !.pc = "planned", !.expr = logicalplanNew(fn.expr, fn.mint, fn.maxt)]
    /\ UnchangedByApply

\* The rewrite applied again to the plan's expression.
CallSetOffsetAgain ==
    /\ fn.f = "logicalplan.New" /\ fn.pc = "planned"
    /\ fn' = [fn EXCEPT !.pc = "again", !.expr = setOffsetForAtModifier(fn.mint, fn.expr)]
    /\ UnchangedByApply

NextPlan == CallLogicalplanNew \/ CallSetOffsetAgain

SpecPlan == InitPlan /\ [][NextPlan]_vars

\* The vector selectors and subqueries of an expression.
RECURSIVE Selectors(_)
Selectors(node) ==
    CASE node.kind = "VectorSelector" -> {node}
      [] node.kind = "MatrixSelector" -> Selectors(node.VectorSelector)
      [] node.kind = "SubqueryExpr" -> {[node EXCEPT !.Expr = 0]} \cup Selectors(node.Expr)
      [] node.kind = "BinaryExpr" -> Selectors(node.LHS) \cup Selectors(node.RHS)
      [] node.kind = "StepInvariantExpr" -> Selectors(node.Expr)

\* The offset of the specification, in Duration units, as a number.
ExpectedOffset(n, mint) ==
    IF n.Timestamp.set THEN n.OriginalOffset + (mint - n.Timestamp.ms) * Millisecond
    ELSE n.OriginalOffset

FitsDuration(x) == -(2 ^ (DurationBits - 1)) <= x /\ x < 2 ^ (DurationBits - 1)

\* C30: after logicalplan.New(expr, mint, maxt) every vector selector, matrix
\* selector and subquery with an `@` timestamp ts has
\* Offset = OriginalOffset + (mint - ts) milliseconds, every one without a
\* timestamp has Offset = OriginalOffset, and a second application of the
\* rewrite changes no offset.
C30_AtModifierOffsets ==
    fn.f = "logicalplan.New" =>
        /\ fn.pc \in {"planned", "again"} =>
              \A n \in Selectors(fn.expr) : n.Offset = ExpectedOffset(n, fn.mint)
        /\ fn.pc = "again" => fn.expr = logicalplanNew(fn.parsed, fn.mint, fn.maxt)

\* The same for the offsets that a time.Duration can hold.
C30_OffsetsThatFit ==
    fn.f = "logicalplan.New" =>
        /\ fn.pc \in {"planned", "again"} =>
              \A n \in Selectors(fn.expr) :
                  (FitsDuration(ExpectedOffset(n, fn.mint))
                   /\ FitsDuration((fn.mint - n.Timestamp.ms) * Millisecond))
                      => n.Offset = ExpectedOffset(n, fn.mint)
        /\ fn.pc = "again" => fn.expr = logicalplanNew(fn.parsed, fn.mint, fn.maxt)

\* A selector with `@ 0` under an offset of one millisecond, planned at
\* mint = 2 and rewritten twice: its offset is three milliseconds.
C30_Witness ==
    /\ fn.f = "logicalplan.New" /\ fn.pc = "again" /\ fn.mint = 2
    /\ \E n \in Selectors(fn.expr) :
          /\ n.kind = "VectorSelector" /\ n.Timestamp = At(0)
          /\ n.OriginalOffset = Millisecond /\ n.Offset = 3 * Millisecond

\* A subquery with `@ end()` over a selector without a timestamp.
C30_WitnessSubquery ==
    /\ fn.f = "logicalplan.New" /\ fn.pc = "planned"
    /\ fn.expr.kind = "StepInvariantExpr" /\ fn.expr.Expr.kind = "SubqueryExpr"
    /\ fn.expr.Expr.Timestamp = At(fn.maxt) /\ fn.expr.Expr.Offset = -Millisecond
    /\ fn.expr.Expr.Expr.Offset = fn.expr.Expr.Expr.OriginalOffset

\* A timestamp so far from mint that the offset does not fit a time.Duration.
C30_WitnessOverflow ==
    /\ fn.f = "logicalplan.New" /\ fn.pc = "planned"
    /\ \E n \in Selectors(fn.expr) :
          /\ n.Timestamp = At(MaxAt) /\ n.Offset # ExpectedOffset(n, fn.mint)

(***************************************************************************)
(* The aggregate's use of its child's pool, checked under Spec.            *)
(***************************************************************************)
\* The step is a call of Next on the aggregate in which the child handed out
\* a batch.
AggregateReadBatch ==
    env.root = "aggregate" /\ NextCalled /\ next'.pos > next.pos

\* Whatever Next returns, the batch and every step vector the child handed out
\* in the call are back in the child's pool, each once.
C31_NextStep == AggregateReadBatch => pools'.child = pools.child

\* C31: on every return path of the aggregate's Next that received a
\* non-empty batch from its child (success, failed table initialisation, ...)
\* the batch and each of its step vectors are returned to the child's pool
\* exactly once.
C31_InputReturnedOnEveryPath == [][C31_NextStep]_vars

\* What holds on every path: the batch itself is returned once, and the step
\* vectors are when Next succeeds.
C31_BatchStep ==
    AggregateReadBatch =>
        /\ pools'.child.batches = pools.child.batches
        /\ last'.err = NoErr => pools'.child.vectors = pools.child.vectors

C31_BatchReturnedOnEveryPath == [][C31_BatchStep]_vars

\* Next failed in the table initialisation: the batch is back, its step
\* vectors are still on loan.
C31_WitnessInitFailed ==
    /\ env.root = "aggregate" /\ last.op = "Next" /\ last.err = StorageErr
    /\ next.pos > 0 /\ ~next.failed
    /\ pools.child.batches = 0 /\ pools.child.vectors > 0

\* Next succeeded over a batch of two step vectors and the child's pool holds
\* all its buffers again.
C31_WitnessSuccess ==
    /\ env.root = "aggregate" /\ last.op = "Next" /\ last.err = NoErr
    /\ Len(last.out.v) = 2 /\ pools.child = NoLoans

(***************************************************************************)
(* The vector-scalar operator's use of the two pools, checked under Spec.  *)
(* The consumer returns the batch it was given and its step vectors to the *)
(* operator's pool within the same step.                                   *)
(***************************************************************************)
\* The step is a call of Next on the vector-scalar operator in which the
\* child handed out a batch.
ScalarReadBatch ==
    env.root = "scalar" /\ NextCalled /\ next'.pos > next.pos

\* The input step vectors are back in the child's pool, and of the step
\* vectors taken from the operator's pool none is left outside the returned
\* batch.
C32_NextStep ==
    ScalarReadBatch =>
        /\ pools'.child.vectors = pools.child.vectors
        /\ pools'.root.vectors = pools.root.vectors

\* C32: for every Next call of the vector-scalar operator that received a
\* batch from its child, each input step vector is returned to the child's
\* pool exactly once and every step vector taken from the operator's own pool
\* is part of the returned batch or returned to that pool, also for steps in
\* which the operation keeps no sample.
C32_StepVectorsAccounted == [][C32_NextStep]_vars

\* What holds: a call that succeeds and keeps a sample in every step leaves
\* both pools as they were.
C32_KeptStep ==
    (ScalarReadBatch /\ last'.err = NoErr /\ Len(last'.out.v) = next'.pos - next.pos) =>
        pools' = pools

C32_StepsWithSamplesAccounted == [][C32_KeptStep]_vars

\* A filtering comparison matched nothing in the one step of the batch: the
\* input step vector and the output step vector taken for it stay on loan.
C32_WitnessFiltered ==
    /\ env.root = "scalar" /\ env.op = ">" /\ last.op = "Next" /\ last.err = NoErr
    /\ next.pos = 1 /\ Len(env.shapes[1].ids) = 1
    /\ ~last.out.isNil /\ Len(last.out.v) = 0
    /\ pools.child.vectors = 1 /\ pools.root.vectors = 1

\* Every step of a batch of two kept a sample and the pools are even.
C32_WitnessKept ==
    /\ env.root = "scalar" /\ last.op = "Next" /\ last.err = NoErr
    /\ Len(last.out.v) = 2 /\ pools.root = NoLoans /\ pools.child = NoLoans

(***************************************************************************)
(* One-shot initialisers that fail, checked under Spec.                    *)
(***************************************************************************)
\* The last call was a Next of the caching step-invariant operator whose
\* one-shot read of the child failed.
CacheStepFailed ==
    /\ Caching /\ u.cacheVectorOnce
    /\ last.op = "Next" /\ last.pulled /\ last.err # NoErr

\* The last call was a Next of the aggregate whose one-shot table
\* initialisation failed: the once is spent and the workers were not started.
TableInitFailed ==
    /\ env.root = "aggregate" /\ a.once /\ ~a.started
    /\ last.op = "Next" /\ last.pulled /\ last.err # NoErr /\ ~next.failed

\* C33: if the one-shot step fails on the first call (the child read in the
\* step-invariant operator's first Next, the table initialisation in the
\* aggregate's first Next), a later call of the same operation returns that
\* same error, never a nil error with a terminal batch and never a dispatch to
\* workers that were not started. The later call is one made under a context
\* that is not cancelled.
C33_OneShotErrorMemoised ==
    (CacheStepFailed \/ TableInitFailed) => rootNext(env, State, FALSE).err = last.err

\* The second Next of the step-invariant operator after a failed child read:
\* the terminal batch and no error.
C33_WitnessTerminalBatch ==
    /\ Caching /\ u.cacheVectorOnce /\ next.failed /\ u.currentStep <= u.maxt
    /\ last.op = "Next" /\ ~last.ctxDone /\ ~last.pulled
    /\ last.err = NoErr /\ last.out.isNil

\* After a failed table initialisation the next Next of the aggregate has a
\* batch to dispatch and no started worker to take it.
C33_WitnessNeverStarted ==
    /\ TableInitFailed /\ next.pos < env.n
    /\ rootNext(env, State, FALSE).err = Blocked

(***************************************************************************)
(* The aggregate and its workers over several Next calls and under         *)
(* cancellation, checked under SpecServe.                                  *)
(***************************************************************************)
\* The caller is inside Next, past the table initialisation.
InsideNext == wg.pc \in {"getBatch", "send", "collect"}

\* The caller or one of the workers can take a step: a Next that is under way
\* is not stuck.
NextCanGoOn ==
    ENABLED (AggGetBatchEnd \/ AggSend \/ AggCollect \/ \E k \in 1..StepsBatch : Worker(k))

\* What a response channel holds while Next sends and collects is the output
\* for the step vector of this call.
NothingLeftOver ==
    \A k \in 1..StepsBatch :
        (wg.pc \in {"send", "collect"} /\ wg.resp[k] # <<>>)
            => (k <= Len(wg.in) /\ wg.respFor[k] = wg.in[k].T)

WorkersServe ==
    /\ InsideNext => NextCanGoOn
    /\ NothingLeftOver
    /\ wg.pc \in {"send", "collect"} => a.started

\* C34: after any sequence of Next calls of the aggregate, including calls
\* that returned an error from Send or GetOutput part-way through a batch, a
\* later Next is never stuck, the output it collects from worker i is the
\* result for the step vector sent to worker i in that same call, and the
\* workers are started before the first Send.
C34_WorkersServeEveryNext == WorkersServe

\* What holds: the same, for an aggregate whose table initialisation did not
\* fail.
C34_WhenTablesInitialised == (a.once => a.started) => WorkersServe

\* Next sent a batch to workers that were never started and waits for an
\* output that no worker will produce.
C34_WitnessStuck ==
    /\ wg.pc = "collect" /\ ~a.started /\ a.once /\ ~ctxDone
    /\ wg.req[1] # <<>> /\ wg.resp[1] = <<>>

\* GetOutput failed part-way through a batch of two: an output stays on a
\* response channel, and the Next after it returned the cancellation error.
C34_WitnessCancelledMidBatch ==
    /\ wg.pc = "done" /\ wg.ret.err = Canceled /\ ctxDone
    /\ Len(wg.in) = 2 /\ Len(wg.result) = 1
    /\ wg.resp[2] # <<>>

\* A second Next collected from both workers after a first Next had done so.
C34_WitnessSecondCall ==
    /\ wg.pc = "done" /\ wg.ret.err = NoErr /\ ~wg.ret.out.isNil
    /\ next.pos = 3 /\ Len(wg.in) = 1 /\ wg.respFor[1] = 2 /\ wg.respFor[2] = 1

(***************************************************************************)
(* The aggregate's scalar tables over any list of input series             *)
(* (SpecTables): the consumer of Spec over an aggregate whose child        *)
(* publishes up to MaxSeries series.                                       *)
(***************************************************************************)
MaxSeries == 3       \* longest series list the child publishes

\* Label sets a child series may have, labels sorted by name.
SeriesUniverse ==
    { << <<"__name__", "m">>, <<"pod", "a">> >>,
      << <<"__name__", "m">>, <<"pod", "b">> >>,
      << <<"__name__", "n">>, <<"pod", "a">> >>,
      << <<"__name__", "m">>, <<"c", "x">>, <<"pod", "a">> >> }

SeriesLists == UNION { [1..n -> SeriesUniverse] : n \in 0..MaxSeries }

TableGroupings == {{}, {"pod"}, {"c"}}

\* The child's step vectors name only series the child publishes.
FitsSeries(sc, list) ==
    \A k \in 1..sc.n : \A i \in 1..Len(sc.shapes[k].ids) : sc.shapes[k].ids[i] < Len(list)

InitTables ==
    /\ \E list \in SeriesLists, by \in BOOLEAN, labels \in TableGroupings,
          sc \in Scripts(1), f \in Faults :
          /\ FitsSeries(sc, list)
          /\ InitOperators([AggregateEnv(FullRange, sc, f, "sum", labels)
                               EXCEPT !.by = by, !.series = list])
    /\ q = IdleQuery
    /\ InitOthers

SpecTables == InitTables /\ [][Next]_vars

\* initializeScalarTables has run and its results are in place.
ScalarTablesReady == env.root = "aggregate" /\ a.started /\ a.tableKind = "scalar"

\* The labels input series i keeps; two series hash alike when these agree.
Retained(i) == hashMetric(env.series[i], ~a.by, a.labels)

\* The first input series that maps to output ordinal k.
FirstInput(inputCache, k) ==
    CHOOSE i \in 1..Len(inputCache) :
        inputCache[i] = k /\ \A j \in 1..(i - 1) : inputCache[j] # k

\* C35: after the scalar-table initialisation over S input series, inputCache
\* has length S, outputCache[k].ID = k for every k and every inputCache[i] is
\* below len(outputCache), every output ordinal is the image of an input,
\* ordinals are assigned in order of first appearance, two inputs share an
\* ordinal exactly when their retained labels hash equal, Series has entry k
\* equal to outputCache[k].Metric, and the pool's step size is
\* len(outputCache).
C35_ScalarTablesDense ==
    ScalarTablesReady =>
        /\ Len(a.tables) = a.stepsBatch
        /\ \A t \in 1..Len(a.tables) :
              LET inputCache == a.tables[t].inputCache
                  outputCache == a.tables[t].outputCache
                  S == Len(env.series)
                  G == Len(outputCache)
              IN /\ Len(inputCache) = S
                 /\ \A k \in 1..G : outputCache[k].ID = k - 1
                 /\ \A i \in 1..S : inputCache[i] \in 0..(G - 1)
                 /\ \A k \in 0..(G - 1) : \E i \in 1..S : inputCache[i] = k
                 /\ \A k, l \in 0..(G - 1) :
                       k < l => FirstInput(inputCache, k) < FirstInput(inputCache, l)
                 /\ \A i, j \in 1..S :
                       (inputCache[i] = inputCache[j]) <=> (Retained(i) = Retained(j))
                 /\ Len(a.series) = G
                 /\ \A k \in 1..G : a.series[k] = outputCache[k].Metric
                 /\ pools.stepSize.root = G

\* Three series in two groups, the second group opened by the third series.
C35_Witness ==
    /\ ScalarTablesReady /\ Len(env.series) = 3
    /\ a.tables[1].inputCache = <<0, 0, 1>>
    /\ Len(a.tables[1].outputCache) = 2 /\ pools.stepSize.root = 2

\* without (pod): the metric name goes too, and three series are one group.
C35_WitnessWithout ==
    /\ ScalarTablesReady /\ ~a.by /\ a.labels = {"pod"} /\ Len(env.series) = 3
    /\ env.series[1] # env.series[2] /\ env.series[2] # env.series[3]
    /\ a.tables[1].inputCache = <<0, 0, 0>>

\* The tables were initialised by the first Next, over no series at all.
C35_WitnessNoSeries ==
    /\ ScalarTablesReady /\ Len(env.series) = 0 /\ a.series = <<>>
    /\ pools.stepSize.root = 0
    /\ ~firstSeries.called /\ last.op = "Next" /\ last.err = NoErr /\ Len(last.out.v) = 1

(***************************************************************************)
(* Exec, Cancel and Close on one query (SpecCancel). Exec runs in its own  *)
(* goroutine; Cancel and Close are called from another one, before, during *)
(* or after it. q.cancel is a plain field: a read of it that is not        *)
(* ordered after Exec's write may still give nil.                          *)
(***************************************************************************)
MaxCancels == 2      \* calls of Cancel and Close on one query

\* Exec is between its entry and its return.
ExecRunning(qr) == qr.pc \in {"series", "loop", "next", "shape"}

\* What `q.cancel != nil` may read.
SeenByCancel(qr) == IF ExecRunning(qr) THEN {"nil", qr.cancel} ELSE {qr.cancel}

\* Cancel: if q.cancel != nil { q.cancel(); q.cancel = nil }
compatibilityQueryCancel(qr, done, seen) ==
    IF seen # "nil" THEN [q |-> [qr EXCEPT !.cancel = "nil"], ctxDone |-> TRUE]
    ELSE [q |-> qr, ctxDone |-> done]

\* Close: q.Cancel()
compatibilityQueryClose(qr, done, seen) == compatibilityQueryCancel(qr, done, seen)

\* A query over a child without faults.
InitCancel ==
    /\ \/ \E rg \in QueryRanges, sc \in Scripts(StepsBatch) :
             \E z \in TsZero(IsInstant(rg)) :
                InitOperators(WithQuery(StepInvariantEnv(rg, sc, NoFault), IsInstant(rg), z,
                                        "vector", "none", "runtime"))
       \/ \E rg \in QueryRanges, sc \in Scripts(MaxChildSteps), agg \in Aggregations :
             \E z \in TsZero(IsInstant(rg)) :
                InitOperators(WithQuery(AggregateEnv(rg, sc, NoFault, agg, {}), IsInstant(rg),
                                        z, "vector", "none", "runtime"))
    /\ q = IdleQuery
    /\ InitOthers

\* The call is logged with Exec's position, what the call read and the field
\* and the context before and after it.
Called(op, r, seen) ==
    /\ q' = [r.q EXCEPT !.calls = Append(@, [op |-> op, at |-> q.pc, seen |-> seen,
                                             stored |-> q.cancel, after |-> r.q.cancel,
                                             ctxBefore |-> ctxDone, ctxAfter |-> r.ctxDone])]
    /\ ctxDone' = r.ctxDone
    /\ UnchangedOperators
    /\ UnchangedConsumer

QueryCancel ==
    /\ Len(q.calls) < MaxCancels
    /\ \E seen \in SeenByCancel(q) :
          Called("Cancel", compatibilityQueryCancel(q, ctxDone, seen), seen)

QueryClose ==
    /\ Len(q.calls) < MaxCancels
    /\ \E seen \in SeenByCancel(q) :
          Called("Close", compatibilityQueryClose(q, ctxDone, seen), seen)

NextCancel ==
    \/ ExecBegin \/ ExecSeries \/ ExecSelect \/ ExecNext \/ ExecShape
    \/ QueryCancel \/ QueryClose

SpecCancel == InitCancel /\ [][NextCancel]_vars

\* A second call right after a first one changes nothing.
CancelIdempotent ==
    \A s1 \in SeenByCancel(q) :
        LET r1 == compatibilityQueryCancel(q, ctxDone, s1)
        IN \A s2 \in SeenByCancel(r1.q) :
              compatibilityQueryCancel(r1.q, r1.ctxDone, s2) = r1

\* A call before Exec has started is a no-op.
NoOpBeforeExec(c) == c.at = "idle" => (c.after = c.stored /\ c.ctxAfter = c.ctxBefore)

\* No call was made while Exec was running.
NoCallDuringExec == \A j \in 1..Len(q.calls) : ~ExecRunning([pc |-> q.calls[j].at])

\* Exec was not cancelled: it returned the end of the stream, or what the
\* operators or the shaping of the result made of it.
RanToCompletion ==
    /\ q.ret.Err # Canceled
    /\ (q.opErr = NoErr /\ q.panicked = "none") => (q.ended /\ q.ret.Err = NoErr)

\* A call was made while Exec was reading the stream.
CalledMidStream == \E j \in 1..Len(q.calls) : q.calls[j].at \in {"series", "loop", "next"}

\* C36: Cancel and Close are idempotent; a Cancel or Close before Exec has
\* started is a no-op and the later Exec runs to completion; a Cancel issued
\* while Exec is running cancels the context Exec polls and Exec returns the
\* cancellation error; after Cancel returns the stored cancel function is
\* cleared.
C36_CancelAndClose ==
    /\ CancelIdempotent
    /\ \A j \in 1..Len(q.calls) :
          /\ NoOpBeforeExec(q.calls[j])
          /\ ExecRunning([pc |-> q.calls[j].at]) => q.calls[j].ctxAfter
          /\ q.calls[j].after = "nil"
    /\ (q.pc = "done" /\ NoCallDuringExec) => RanToCompletion
    /\ (q.pc = "done" /\ CalledMidStream) => q.ret.Err = Canceled

\* What holds: the same for the calls that read q.cancel as Exec last wrote
\* it, the result of a cancelled Exec left aside.
C36_OrderedCalls ==
    /\ ~ExecRunning(q) => CancelIdempotent
    /\ \A j \in 1..Len(q.calls) :
          q.calls[j].seen = q.calls[j].stored =>
              /\ NoOpBeforeExec(q.calls[j])
              /\ ExecRunning([pc |-> q.calls[j].at]) => q.calls[j].ctxAfter
              /\ q.calls[j].after = "nil"
    /\ (q.pc = "done" /\ NoCallDuringExec) => RanToCompletion

\* With a root that polls the context first, an Exec cancelled mid-stream by a
\* call that read the stored function returns the cancellation error.
C36_CancelledExec ==
    (q.pc = "done" /\ env.root = "aggregate"
        /\ \E j \in 1..Len(q.calls) :
              q.calls[j].at \in {"series", "loop", "next"} /\ q.calls[j].seen = "set")
        => q.ret.Err = Canceled

\* Cancel before Exec, then Exec to completion, then Close.
C36_WitnessBeforeAndAfter ==
    /\ q.pc = "done" /\ q.ended /\ q.ret.Err = NoErr /\ Len(q.received) > 0
    /\ Len(q.calls) = 2
    /\ q.calls[1].op = "Cancel" /\ q.calls[1].at = "idle"
    /\ q.calls[2].op = "Close" /\ q.calls[2].at = "done" /\ q.calls[2].stored = "set"
    /\ q.cancel = "nil"

\* Cancel while Exec was in its loop: the aggregate's Exec returned the
\* cancellation error.
C36_WitnessCancelled ==
    /\ q.pc = "done" /\ env.root = "aggregate" /\ q.ret.Err = Canceled
    /\ Len(q.calls) = 1 /\ q.calls[1].at = "next" /\ q.calls[1].seen = "set"

\* Cancel while the step-invariant operator's Exec was about to call Next
\* after the last step: Exec returned its result and no error.
C36_WitnessNotCancelled ==
    /\ q.pc = "done" /\ env.root = "stepInvariant" /\ q.ret.Err = NoErr
    /\ Len(q.calls) = 1 /\ q.calls[1].at = "next" /\ q.calls[1].seen = "set"
    /\ q.calls[1].ctxAfter

\* Cancel while Exec was running read q.cancel as nil and did nothing.
C36_WitnessStaleRead ==
    /\ Len(q.calls) = 1 /\ q.calls[1].at = "loop"
    /\ q.calls[1].seen = "nil" /\ q.calls[1].stored = "set" /\ q.calls[1].after = "set"
    /\ ~q.calls[1].ctxAfter
====
